---- MODULE Spec2Model ----
(***************************************************************************)
(* Bracket state machine of the Vanguard League tournament engine          *)
(* (backend/app/services/tournament_engine.py, backend/app/api/            *)
(* tournament.py).  One bracket of one event is modelled: its rounds, its  *)
(* matches and the operations generate / update result / undo result /     *)
(* delete match together with everything they trigger (propagation,        *)
(* automatic byes, round completion, round activation).                    *)
(*                                                                         *)
(* Fighter ids are 1..n, in the order _get_participants returns them.      *)
(* 0 stands for NULL in every id column (fighter, match, round).           *)
(***************************************************************************)
EXTENDS Integers, Sequences, FiniteSets, TLC

\* ------------------------------------------------------------------ bounds
MaxSingleElim == 6          \* largest single-elimination field explored
MaxRoundRobin == 3          \* largest round-robin field explored
MaxIrregular == 1           \* undo / delete / out-of-turn posts per run
MaxDoubleElimPlayed == 3    \* double elimination: results on record while
                            \* such an irregular step is explored

\* ------------------------------------------------------- program constants
MinDoubleElim == 8          \* _generate_double_elimination: minimum field
HeavyweightAbove == 200     \* get_weight_limit: heavy means weight > 200
WeightGapLimit == 30        \* get_weight_limit: limit of all other pairs
DefaultElo == 1500          \* player_data: player.elo_rating or 1500
DefaultMatchCount == 3      \* config.get("match_count", 3)
DefaultMaxRematches == 1    \* config.get("max_rematches", 1)

\* -------------------------------------------------------------- enum values
PENDING == "pending"
READY == "ready"
IN_PROGRESS == "in_progress"
COMPLETED == "completed"

PLAYER_A_WIN == "a_win"
PLAYER_B_WIN == "b_win"
DRAW == "draw"
NO_CONTEST == "no_contest"
NoResult == "null"

SINGLE_ELIMINATION == "single_elimination"
DOUBLE_ELIMINATION == "double_elimination"
ROUND_ROBIN == "round_robin"
SWISS == "swiss"
GUARANTEED_MATCHES == "guaranteed_matches"
NoFormat == "deleted"       \* the bracket row does not exist (any more)

NoMethod == "null"
Bye == "Bye"
Submission == "Submission"

NoDuration == -1
NoTime == -1

\* ------------------------------------------------------------------ helpers
Min(x, y) == IF x <= y THEN x ELSE y
Max(x, y) == IF x >= y THEN x ELSE y

At(s, i) == IF i >= 1 /\ i <= Len(s) THEN s[i] ELSE 0

RECURSIVE CeilLog2From(_, _)
CeilLog2From(n, k) == IF 2^k >= n THEN k ELSE CeilLog2From(n, k + 1)

\* math.ceil(math.log2(n)) for n >= 1
CeilLog2(n) == CeilLog2From(n, 0)

\* the ids of a set in ascending order (primary-key order)
RECURSIVE SortedIds(_)
SortedIds(S) ==
    IF S = {} THEN <<>>
    ELSE LET lo == CHOOSE x \in S : \A y \in S : x <= y
         IN <<lo>> \o SortedIds(S \ {lo})

\* -------------------------------------------------------------- the records
\* Match(...) row; the columns the engine reads or writes
Match(rid, a, b, status, result, method, depa, depb, rwa, rwb, num) ==
    [bracket_round_id |-> rid,
     a_player_id |-> a,
     b_player_id |-> b,
     match_status |-> status,
     result |-> result,
     method |-> method,
     duration_seconds |-> NoDuration,
     depends_on_match_a |-> depa,
     depends_on_match_b |-> depb,
     requires_winner_a |-> rwa,
     requires_winner_b |-> rwb,
     match_number |-> num,
     completed_at |-> NoTime]

\* BracketRound(...) row; round_data keys "type" and "feeds_from_winners"
BracketRound(num, btype, status, rtype, feeds) ==
    [round_number |-> num,
     bracket_type |-> btype,
     status |-> status,
     type |-> rtype,
     feeds_from_winners |-> feeds]

\* ------------------------------------------------ single-elimination skeleton
\* round 1 of an elimination bracket: ceil(n/2) pairings, then the bye loop
FirstRoundMatches(n, W) ==
    LET needed == (n + 1) \div 2
        paired == [i \in 1..needed |->
                     LET ai == 2 * i - 1
                         bi == IF 2 * i <= n THEN 2 * i ELSE 0
                     IN Match(1, ai, bi, IF bi # 0 THEN READY ELSE PENDING,
                              NoResult, NoMethod, 0, 0, TRUE, TRUE, i)]
        num_byes == 2^(W - 1) - needed
        made == Min(Max(num_byes, 0), Max(n - 2 * needed, 0))
        byes == [k \in 1..made |->
                     Match(1, 2 * needed + k, 0, COMPLETED, PLAYER_A_WIN, Bye,
                           0, 0, TRUE, TRUE, needed + k)]
    IN paired \o byes

\* rounds k..W of an elimination tree; prev = ids of the previous round
RECURSIVE LaterRoundMatches(_, _, _, _)
LaterRoundMatches(k, W, prev, acc) ==
    IF k > W THEN acc
    ELSE LET cnt == 2^(W - k)
             base == Len(acc)
             ms == [j \in 1..cnt |->
                      Match(k, 0, 0, PENDING, NoResult, NoMethod,
                            At(prev, 2 * j - 1), At(prev, 2 * j),
                            TRUE, TRUE, j)]
         IN LaterRoundMatches(k + 1, W, [j \in 1..cnt |-> base + j], acc \o ms)

EliminationMatches(n) ==
    LET W == CeilLog2(n)
        r1 == FirstRoundMatches(n, W)
    IN LaterRoundMatches(2, W, [j \in 1..Len(r1) |-> j], r1)

SingleElimRounds(n) ==
    [k \in 1..CeilLog2(n) |->
        BracketRound(k, "none", IF k = 1 THEN IN_PROGRESS ELSE PENDING, "none", 0)]

\* ------------------------------------------------------------ queries
\* db is the store: [bracket, rounds, matches]
MatchesInRound(db, rid) ==
    {m \in DOMAIN db.matches : db.matches[m].bracket_round_id = rid}

HasBoth(mt) == mt.a_player_id # 0 /\ mt.b_player_id # 0

WinnerOf(mt) ==
    IF mt.result = PLAYER_A_WIN THEN mt.a_player_id
    ELSE IF mt.result = PLAYER_B_WIN THEN mt.b_player_id
    ELSE 0

LoserOf(mt) ==
    IF mt.result = PLAYER_A_WIN THEN mt.b_player_id
    ELSE IF mt.result = PLAYER_B_WIN THEN mt.a_player_id
    ELSE 0

DependentsOf(db, mid) ==
    {d \in DOMAIN db.matches :
        \/ db.matches[d].depends_on_match_a = mid
        \/ db.matches[d].depends_on_match_b = mid}

\* the automatic bye written by _propagate_result and _activate_ready_matches
AutoBye(mt) ==
    [mt EXCEPT !.match_status = COMPLETED,
               !.result = PLAYER_A_WIN,
               !.method = Bye,
               !.duration_seconds = 0]

\* ------------------------------------------------------------ propagation
\* a faulty variant that forwards the loser where the winner is required;
\* C14 fails under it
FillSlotsWithLoser(dep, mid, winner_id, loser_id) ==
    LET a == IF dep.depends_on_match_a = mid
             THEN IF dep.requires_winner_a /\ loser_id # 0 THEN loser_id
                  ELSE IF ~dep.requires_winner_a /\ winner_id # 0 THEN winner_id
                  ELSE dep.a_player_id
             ELSE dep.a_player_id
        b == IF dep.depends_on_match_b = mid
             THEN IF dep.requires_winner_b /\ loser_id # 0 THEN loser_id
                  ELSE IF ~dep.requires_winner_b /\ winner_id # 0 THEN winner_id
                  ELSE dep.b_player_id
             ELSE dep.b_player_id
    IN [dep EXCEPT !.a_player_id = a, !.b_player_id = b]

\* the slot writes of _propagate_result for one dependent
FillSlots(dep, mid, winner_id, loser_id) ==
    LET a == IF dep.depends_on_match_a = mid
             THEN IF dep.requires_winner_a /\ winner_id # 0 THEN winner_id
                  ELSE IF ~dep.requires_winner_a /\ loser_id # 0 THEN loser_id
                  ELSE dep.a_player_id
             ELSE dep.a_player_id
        b == IF dep.depends_on_match_b = mid
             THEN IF dep.requires_winner_b /\ winner_id # 0 THEN winner_id
                  ELSE IF ~dep.requires_winner_b /\ loser_id # 0 THEN loser_id
                  ELSE dep.b_player_id
             ELSE dep.b_player_id
    IN [dep EXCEPT !.a_player_id = a, !.b_player_id = b]

\* "bye match: only needs player A (requires_winner_b = False)"
TakesByeBranch(dep) ==
    dep.a_player_id # 0 /\ dep.b_player_id = 0 /\ ~dep.requires_winner_b

\* the status transition of _propagate_result for one dependent
Transition(dep) ==
    IF dep.a_player_id # 0 /\ (dep.b_player_id # 0 \/ ~dep.requires_winner_b)
    THEN IF dep.b_player_id # 0
         THEN [dep EXCEPT !.match_status = READY]
         ELSE AutoBye(dep)
    ELSE dep

\* a faulty variant that also reopens rounds that are not Pending; C7 fails
\* under it
ActivateAnyRoundWithReadyMatches(db) ==
    [db EXCEPT !.rounds =
        [r \in DOMAIN db.rounds |->
            IF /\ db.rounds[r].status # IN_PROGRESS
               /\ \E m \in MatchesInRound(db, r) : db.matches[m].match_status = READY
            THEN [db.rounds[r] EXCEPT !.status = IN_PROGRESS]
            ELSE db.rounds[r]]]

ActivatePendingRoundsWithReadyMatches(db) ==
    [db EXCEPT !.rounds =
        [r \in DOMAIN db.rounds |->
            IF /\ db.rounds[r].status = PENDING
               /\ \E m \in MatchesInRound(db, r) : db.matches[m].match_status = READY
            THEN [db.rounds[r] EXCEPT !.status = IN_PROGRESS]
            ELSE db.rounds[r]]]

RECURSIVE PropagateResult(_, _)
RECURSIVE PropagateEach(_, _)

PropagateEach(db, ids) ==
    IF ids = <<>> THEN db
    ELSE PropagateEach(PropagateResult(db, Head(ids)), Tail(ids))

PropagateResult(db, mid) ==
    LET mt == db.matches[mid]
    IN IF mt.result = NoResult \/ mt.result = NO_CONTEST THEN db
       ELSE LET deps == DependentsOf(db, mid)
                filled == [d \in deps |->
                             FillSlots(db.matches[d], mid, WinnerOf(mt), LoserOf(mt))]
                byes == {d \in deps : TakesByeBranch(filled[d])}
                db1 == [db EXCEPT !.matches =
                          [d \in DOMAIN db.matches |->
                              IF d \in deps THEN Transition(filled[d])
                              ELSE db.matches[d]]]
                db2 == PropagateEach(db1, SortedIds(byes))
            IN ActivatePendingRoundsWithReadyMatches(db2)

\* _propagate_byes: the round-1 byes of a freshly generated bracket
PropagateByes(db, rid) ==
    PropagateEach(db, SortedIds({m \in MatchesInRound(db, rid) :
                                    /\ db.matches[m].result = PLAYER_A_WIN
                                    /\ db.matches[m].method = Bye}))

\* ------------------------------------------------------- round activation
\* "mark all matches as ready": PENDING matches of round rid become READY
MarkPendingReady(db, rid) ==
    [db EXCEPT !.matches =
        [m \in DOMAIN db.matches |->
            IF /\ db.matches[m].bracket_round_id = rid
               /\ db.matches[m].match_status = PENDING
            THEN [db.matches[m] EXCEPT !.match_status = READY]
            ELSE db.matches[m]]]

SetRoundStatus(db, rid, st) ==
    [db EXCEPT !.rounds = [db.rounds EXCEPT ![rid].status = st]]

\* the PENDING round of the given set with the lowest round_number, or 0
FirstPendingRound(db, candidates) ==
    LET pend == {r \in candidates : db.rounds[r].status = PENDING}
    IN IF pend = {} THEN 0
       ELSE CHOOSE r \in pend :
              \A q \in pend : db.rounds[r].round_number <= db.rounds[q].round_number

AllHaveBoth(db, rid) ==
    /\ MatchesInRound(db, rid) # {}
    /\ \A m \in MatchesInRound(db, rid) : HasBoth(db.matches[m])

\* a faulty variant that opens the next round but leaves its matches
\* Pending; C22 fails under it
GenerateNextRoundRobinRoundOnly(db) ==
    LET next_round == FirstPendingRound(db, DOMAIN db.rounds)
    IN IF next_round = 0
       THEN [db EXCEPT !.bracket = [db.bracket EXCEPT !.is_finalized = TRUE]]
       ELSE SetRoundStatus(db, next_round, IN_PROGRESS)

GenerateNextRoundRobinRound(db) ==
    LET next_round == FirstPendingRound(db, DOMAIN db.rounds)
    IN IF next_round = 0
       THEN [db EXCEPT !.bracket = [db.bracket EXCEPT !.is_finalized = TRUE]]
       ELSE MarkPendingReady(SetRoundStatus(db, next_round, IN_PROGRESS), next_round)

ActivateReadyMatches(db, rid) ==
    LET ms == MatchesInRound(db, rid)
        live(m) == db.matches[m].match_status = PENDING /\ db.matches[m].a_player_id # 0
        byes == {m \in ms : live(m) /\ TakesByeBranch(db.matches[m])}
        db1 == [db EXCEPT !.matches =
                  [m \in DOMAIN db.matches |->
                      IF m \in ms /\ live(m)
                      THEN IF db.matches[m].b_player_id # 0
                           THEN [db.matches[m] EXCEPT !.match_status = READY]
                           ELSE IF ~db.matches[m].requires_winner_b
                                THEN AutoBye(db.matches[m])
                                ELSE db.matches[m]
                      ELSE db.matches[m]]]
    IN PropagateEach(db1, SortedIds(byes))

WinnersRounds(db) == {r \in DOMAIN db.rounds : db.rounds[r].bracket_type = "winners"}
LosersRounds(db) == {r \in DOMAIN db.rounds : db.rounds[r].bracket_type = "losers"}
FinalsRounds(db) == {r \in DOMAIN db.rounds : db.rounds[r].bracket_type = "finals"}

ActivateNextWinnersRound(db) ==
    LET next_winners_round == FirstPendingRound(db, WinnersRounds(db))
    IN IF next_winners_round # 0 /\ AllHaveBoth(db, next_winners_round)
       THEN MarkPendingReady(SetRoundStatus(db, next_winners_round, IN_PROGRESS),
                             next_winners_round)
       ELSE db

RECURSIVE ActivateDropDownEach(_, _)
ActivateDropDownEach(db, rids) ==
    IF rids = <<>> THEN db
    ELSE ActivateDropDownEach(
            ActivateReadyMatches(SetRoundStatus(db, Head(rids), IN_PROGRESS), Head(rids)),
            Tail(rids))

ActivateLosersDropDownRounds(db, completed) ==
    ActivateDropDownEach(db, SortedIds(
        {r \in LosersRounds(db) :
            /\ db.rounds[r].status = PENDING
            /\ db.rounds[r].type = "drop_down"
            /\ db.rounds[r].feeds_from_winners = db.rounds[completed].round_number}))

RECURSIVE ActivateAdvancementEach(_, _)
ActivateAdvancementEach(db, rids) ==
    IF rids = <<>> THEN db
    ELSE ActivateAdvancementEach(
            IF AllHaveBoth(db, Head(rids))
            THEN MarkPendingReady(SetRoundStatus(db, Head(rids), IN_PROGRESS), Head(rids))
            ELSE db,
            Tail(rids))

ActivateLosersAdvancementRounds(db) ==
    ActivateAdvancementEach(db, SortedIds(
        {r \in LosersRounds(db) :
            db.rounds[r].status = PENDING /\ db.rounds[r].type = "advancement"}))

\* the slot write of _assign_losers_champion_to_finals for one finals match
TakeChampion(mt, champion) ==
    LET m1 == IF mt.a_player_id # 0 /\ mt.b_player_id = 0
              THEN [mt EXCEPT !.b_player_id = champion]
              ELSE IF mt.b_player_id # 0 /\ mt.a_player_id = 0
                   THEN [mt EXCEPT !.a_player_id = champion]
                   ELSE mt
    IN IF HasBoth(m1) /\ m1.match_status = PENDING
       THEN [m1 EXCEPT !.match_status = READY]
       ELSE m1

\* last is the row the unordered query returns last (matches[-1])
AssignLosersChampionToFinals(db, completed, last) ==
    LET pending_losers == {r \in LosersRounds(db) : db.rounds[r].status # COMPLETED}
        done == {m \in MatchesInRound(db, completed) :
                    db.matches[m].match_status = COMPLETED}
    IN IF pending_losers # {} \/ done = {} \/ last \notin done THEN db
       ELSE IF db.matches[last].result \notin {PLAYER_A_WIN, PLAYER_B_WIN} THEN db
       ELSE IF FinalsRounds(db) = {} THEN db
       ELSE LET grand_finals == CHOOSE r \in FinalsRounds(db) : TRUE
            IN [db EXCEPT !.matches =
                  [m \in DOMAIN db.matches |->
                      IF db.matches[m].bracket_round_id = grand_finals
                      THEN TakeChampion(db.matches[m], WinnerOf(db.matches[last]))
                      ELSE db.matches[m]]]

CheckGrandFinalsActivation(db) ==
    LET grand_finals == FirstPendingRound(db, FinalsRounds(db))
    IN IF grand_finals # 0 /\ AllHaveBoth(db, grand_finals)
       THEN MarkPendingReady(SetRoundStatus(db, grand_finals, IN_PROGRESS), grand_finals)
       ELSE db

GenerateNextDoubleElimRound(db, completed, last) ==
    LET t == db.rounds[completed].bracket_type
        db1 == IF t = "winners"
               THEN ActivateLosersDropDownRounds(ActivateNextWinnersRound(db), completed)
               ELSE IF t = "losers"
                    THEN AssignLosersChampionToFinals(
                            ActivateLosersAdvancementRounds(db), completed, last)
                    ELSE db
    IN CheckGrandFinalsActivation(db1)

\* ------------------------------------------------------------------- swiss
\* BracketRound(...) row of a Swiss bracket; round_data key "total_rounds"
SwissRound(num, status, total) ==
    [round_number |-> num,
     bracket_type |-> "none",
     status |-> status,
     type |-> "swiss",
     feeds_from_winners |-> 0,
     total_rounds |-> total]

\* config.get("rounds", ceil(log2(n))); 0 stands for a config without "rounds"
SwissTotalRounds(b) ==
    IF b.rounds_config # 0 THEN b.rounds_config ELSE CeilLog2(b.participants)

\* _generate_swiss: round 1, top half against bottom half, and the bye row
Swiss(b) ==
    LET n == b.participants
        num_matches == n \div 2
        pairs == [i \in 1..num_matches |->
                    Match(1, i, n + 1 - i, READY, NoResult, NoMethod,
                          0, 0, TRUE, TRUE, i)]
        bye == IF n % 2 = 1
               THEN <<Match(1, n, 0, COMPLETED, PLAYER_A_WIN, Bye,
                            0, 0, TRUE, TRUE, num_matches + 1)>>
               ELSE <<>>
    IN [matches |-> pairs \o bye,
        rounds |-> <<SwissRound(1, IN_PROGRESS, SwissTotalRounds(b))>>]

\* the keys of the standings dict in insertion order: for every match with a
\* result, in row order, fighter A and then fighter B
RECURSIVE StandingsOrder(_, _, _)
StandingsOrder(db, ids, acc) ==
    IF ids = <<>> THEN acc
    ELSE LET mt == db.matches[Head(ids)]
             seen(q, sq) == \E i \in 1..Len(sq) : sq[i] = q
             a1 == IF mt.a_player_id # 0 /\ ~seen(mt.a_player_id, acc)
                   THEN Append(acc, mt.a_player_id) ELSE acc
             b1 == IF mt.b_player_id # 0 /\ ~seen(mt.b_player_id, a1)
                   THEN Append(a1, mt.b_player_id) ELSE a1
         IN StandingsOrder(db, Tail(ids), b1)

WithResult(db) == {m \in DOMAIN db.matches : db.matches[m].result # NoResult}

Wins(db, p) ==
    Cardinality({m \in DOMAIN db.matches :
        \/ db.matches[m].result = PLAYER_A_WIN /\ db.matches[m].a_player_id = p
        \/ db.matches[m].result = PLAYER_B_WIN /\ db.matches[m].b_player_id = p})

Draws(db, p) ==
    Cardinality({m \in DOMAIN db.matches :
        /\ db.matches[m].result = DRAW
        /\ p \in {db.matches[m].a_player_id, db.matches[m].b_player_id}})

\* twice the "points" of the standings (1.0 per win, 0.5 per draw)
Points(db, p) == 2 * Wins(db, p) + Draws(db, p)

\* sorted(items, key = (points, wins), reverse = True) of the fighters in
\* order; the sort is stable
SortByRecord(db, order) ==
    LET ahead(i, j) ==
            \/ Points(db, order[i]) > Points(db, order[j])
            \/ /\ Points(db, order[i]) = Points(db, order[j])
               /\ \/ Wins(db, order[i]) > Wins(db, order[j])
                  \/ Wins(db, order[i]) = Wins(db, order[j]) /\ i < j
        rank(j) == Cardinality({i \in 1..Len(order) : ahead(i, j)})
    IN [k \in 1..Len(order) |->
           order[CHOOSE j \in 1..Len(order) : rank(j) = k - 1]]

\* the sorted standings of _swiss_pairing
SortedPlayers(db) ==
    SortByRecord(db, StandingsOrder(db, SortedIds(WithResult(db)), <<>>))

\* _get_matchup_history(...).get(p, set())
MatchupHistory(db, p) ==
    {q \in 1..db.bracket.participants :
        \E m \in DOMAIN db.matches :
            /\ HasBoth(db.matches[m])
            /\ {db.matches[m].a_player_id, db.matches[m].b_player_id} = {p, q}}

\* the loop of _swiss_pairing from index i on; 0 as opponent is a bye
RECURSIVE SwissPairingFrom(_, _, _, _, _)
SwissPairingFrom(db, player_ids, i, paired, pairings) ==
    IF i > Len(player_ids) THEN pairings
    ELSE IF player_ids[i] \in paired
         THEN SwissPairingFrom(db, player_ids, i + 1, paired, pairings)
         ELSE LET player_id == player_ids[i]
                  free == {j \in (i + 1)..Len(player_ids) : player_ids[j] \notin paired}
                  fresh == {j \in free : player_ids[j] \notin MatchupHistory(db, player_id)}
                  first(S) == CHOOSE j \in S : \A k \in S : j <= k
                  opponent_id == IF fresh # {} THEN player_ids[first(fresh)]
                                 ELSE IF free # {} THEN player_ids[first(free)]
                                 ELSE 0
              IN SwissPairingFrom(db, player_ids, i + 1,
                                  paired \cup ({player_id, opponent_id} \ {0}),
                                  Append(pairings, <<player_id, opponent_id>>))

SwissPairing(db) == SwissPairingFrom(db, SortedPlayers(db), 1, {}, <<>>)

\* the match rows created from a list of pairings for round rid
PairingMatches(rid, pairings) ==
    [i \in 1..Len(pairings) |->
        IF pairings[i][2] # 0
        THEN Match(rid, pairings[i][1], pairings[i][2], READY, NoResult, NoMethod,
                   0, 0, TRUE, TRUE, i)
        ELSE Match(rid, pairings[i][1], 0, COMPLETED, PLAYER_A_WIN, Bye,
                   0, 0, TRUE, TRUE, i)]

Finalize(db) == [db EXCEPT !.bracket = [db.bracket EXCEPT !.is_finalized = TRUE]]

\* a faulty variant that only stops after the configured total has been
\* exceeded; C17 fails under it
GenerateNextSwissRoundPastTotal(db, completed) ==
    LET total_rounds == db.rounds[completed].total_rounds
        pairings == SwissPairing(db)
        next_round_num == db.rounds[completed].round_number + 1
    IN IF db.rounds[completed].round_number > total_rounds THEN Finalize(db)
       ELSE IF pairings = <<>> THEN Finalize(db)
       ELSE [db EXCEPT
               !.rounds = Append(db.rounds,
                             SwissRound(next_round_num, IN_PROGRESS, total_rounds)),
               !.matches = db.matches \o
                             PairingMatches(Len(db.rounds) + 1, pairings)]

GenerateNextSwissRound(db, completed) ==
    LET total_rounds == db.rounds[completed].total_rounds
        pairings == SwissPairing(db)
        next_round_num == db.rounds[completed].round_number + 1
    IN IF db.rounds[completed].round_number >= total_rounds THEN Finalize(db)
       ELSE IF pairings = <<>> THEN Finalize(db)
       ELSE [db EXCEPT
               !.rounds = Append(db.rounds,
                             SwissRound(next_round_num, IN_PROGRESS, total_rounds)),
               !.matches = db.matches \o
                             PairingMatches(Len(db.rounds) + 1, pairings)]

\* ------------------------------------------------------ guaranteed matches
\* A guaranteed-matches bracket carries, next to its participants, the two
\* config values, the pairing mode and the fighters' data read by the
\* weight-aware pairing: weight (0 = not recorded), weight class of the
\* event entry (0 = none) and rating (0 = not recorded).
GuaranteedRound(num, status, match_count, max_rematches) ==
    [round_number |-> num,
     bracket_type |-> "none",
     status |-> status,
     type |-> "guaranteed_matches",
     feeds_from_winners |-> 0,
     total_matches_per_fighter |-> match_count,
     max_rematches |-> max_rematches]

\* _calculate_match_counts: the Completed matches of fighter p
MatchCount(db, p) ==
    Cardinality({m \in DOMAIN db.matches :
        /\ db.matches[m].match_status = COMPLETED
        /\ p \in {db.matches[m].a_player_id, db.matches[m].b_player_id}})

\* fighters_needing_matches: the keys of match_counts below the target
FightersNeedingMatches(db, target) ==
    {p \in 1..db.bracket.participants :
        MatchCount(db, p) > 0 /\ MatchCount(db, p) < target}

\* filtered_standings: the standings of the fighters needing matches, in
\* the order of the standings
FilteredStandings(db, target) ==
    LET needing(p) == p \in FightersNeedingMatches(db, target)
    IN SelectSeq(StandingsOrder(db, SortedIds(WithResult(db)), <<>>), needing)

\* rematch_counts[pair]: one for every (p1, p2) with p1 in the standings and
\* p2 in the history set of p1
RematchCount(db, keys, p, q) ==
    (IF p \in keys /\ q \in MatchupHistory(db, p) THEN 1 ELSE 0)
    + (IF q \in keys /\ p \in MatchupHistory(db, q) THEN 1 ELSE 0)

\* the pairs the first pass turns down: rematch_count < max_rematches fails
AtRematchLimit(db, keys, max_rematches) ==
    {pr \in SUBSET keys :
        /\ Cardinality(pr) = 2
        /\ \E p \in pr, q \in pr :
              p < q /\ RematchCount(db, keys, p, q) >= max_rematches}

\* the loop of _guaranteed_pairing from index i on; 0 as opponent is a bye
RECURSIVE GuaranteedPairingFrom(_, _, _, _, _)
GuaranteedPairingFrom(player_ids, limited, i, paired, pairings) ==
    IF i > Len(player_ids) THEN pairings
    ELSE IF player_ids[i] \in paired
         THEN GuaranteedPairingFrom(player_ids, limited, i + 1, paired, pairings)
         ELSE LET player_id == player_ids[i]
                  free == {j \in (i + 1)..Len(player_ids) : player_ids[j] \notin paired}
                  within == {j \in free : {player_id, player_ids[j]} \notin limited}
                  first(S) == CHOOSE j \in S : \A k \in S : j <= k
                  opponent_id == IF within # {} THEN player_ids[first(within)]
                                 ELSE IF free # {} THEN player_ids[first(free)]
                                 ELSE 0
              IN GuaranteedPairingFrom(player_ids, limited, i + 1,
                                       paired \cup ({player_id, opponent_id} \ {0}),
                                       Append(pairings, <<player_id, opponent_id>>))

\* _guaranteed_pairing on the given standings (a sequence of fighters)
GuaranteedPairing(db, standings, max_rematches) ==
    LET keys == {standings[i] : i \in 1..Len(standings)}
    IN GuaranteedPairingFrom(SortByRecord(db, standings),
                             AtRematchLimit(db, keys, max_rematches), 1, {}, <<>>)

\* player_data[p]['weight'], ['weight_class_id'], ['elo']
Weight(b, p) == b.weights[p]
WeightClass(b, p) == b.weight_classes[p]
Elo(b, p) == IF b.elo_ratings[p] = 0 THEN DefaultElo ELSE b.elo_ratings[p]

\* sorted(items, key = (points, wins, elo), reverse = True); stable
SortByRecordAndElo(db, order) ==
    LET b == db.bracket
        key(i) == <<Points(db, order[i]), Wins(db, order[i]), Elo(b, order[i])>>
        ahead(i, j) ==
            \/ key(i)[1] > key(j)[1]
            \/ key(i)[1] = key(j)[1] /\ key(i)[2] > key(j)[2]
            \/ key(i)[1] = key(j)[1] /\ key(i)[2] = key(j)[2] /\ key(i)[3] > key(j)[3]
            \/ key(i) = key(j) /\ i < j
        rank(j) == Cardinality({i \in 1..Len(order) : ahead(i, j)})
    IN [k \in 1..Len(order) |->
           order[CHOOSE j \in 1..Len(order) : rank(j) = k - 1]]

\* get_weight_limit: TRUE when the pair has no limit (both heavy)
NoWeightLimit(w1, w2) == w1 > HeavyweightAbove /\ w2 > HeavyweightAbove

\* a faulty variant that lets every pair through; C20 fails under it
IsAnyWeightMatch(w1, w2) ==
    w1 >= 0 /\ w2 >= 0

\* is_valid_weight_match on the two weights
IsValidWeightMatch(w1, w2) ==
    IF w1 = 0 \/ w2 = 0 THEN TRUE
    ELSE LET weight_diff == IF w1 >= w2 THEN w1 - w2 ELSE w2 - w1
         IN NoWeightLimit(w1, w2) \/ weight_diff <= WeightGapLimit

\* same_weight_class
SameWeightClass(b, p, q) ==
    WeightClass(b, p) # 0 /\ WeightClass(b, p) = WeightClass(b, q)

\* the loop of _weight_aware_guaranteed_pairing from index i on: four
\* passes, every one of them over weight-legal candidates only
RECURSIVE WeightAwarePairingFrom(_, _, _, _, _, _)
WeightAwarePairingFrom(b, player_ids, limited, i, paired, pairings) ==
    IF i > Len(player_ids) THEN pairings
    ELSE IF player_ids[i] \in paired
         THEN WeightAwarePairingFrom(b, player_ids, limited, i + 1, paired, pairings)
         ELSE LET player_id == player_ids[i]
                  legal == {j \in (i + 1)..Len(player_ids) :
                              /\ player_ids[j] \notin paired
                              /\ IsValidWeightMatch(Weight(b, player_id),
                                                    Weight(b, player_ids[j]))}
                  same == {j \in legal : SameWeightClass(b, player_id, player_ids[j])}
                  cross == legal \ same
                  within(S) == {j \in S : {player_id, player_ids[j]} \notin limited}
                  first(S) == CHOOSE j \in S : \A k \in S : j <= k
                  opponent_id ==
                      IF within(same) # {} THEN player_ids[first(within(same))]
                      ELSE IF within(cross) # {} THEN player_ids[first(within(cross))]
                      ELSE IF same # {} THEN player_ids[first(same)]
                      ELSE IF cross # {} THEN player_ids[first(cross)]
                      ELSE 0
              IN WeightAwarePairingFrom(b, player_ids, limited, i + 1,
                                        paired \cup ({player_id, opponent_id} \ {0}),
                                        Append(pairings, <<player_id, opponent_id>>))

\* _weight_aware_guaranteed_pairing on the given standings
WeightAwareGuaranteedPairing(db, standings, max_rematches) ==
    LET keys == {standings[i] : i \in 1..Len(standings)}
    IN WeightAwarePairingFrom(db.bracket, SortByRecordAndElo(db, standings),
                              AtRematchLimit(db, keys, max_rematches), 1, {}, <<>>)

\* _generate_guaranteed_matches: round 1, weight-aware over everyone at
\* 0-0-0 or else neighbours in the participants' order, and the bye row
GuaranteedMatches(b) ==
    LET n == b.participants
        num_matches == n \div 2
        blank == [bracket |-> b, rounds |-> <<>>, matches |-> <<>>]
        pairs == [i \in 1..num_matches |->
                    Match(1, 2 * i - 1, 2 * i, READY, NoResult, NoMethod,
                          0, 0, TRUE, TRUE, i)]
        bye == IF n % 2 = 1
               THEN <<Match(1, n, 0, COMPLETED, PLAYER_A_WIN, Bye,
                            0, 0, TRUE, TRUE, num_matches + 1)>>
               ELSE <<>>
    IN [matches |-> IF b.weight_based_pairing
                    THEN PairingMatches(1,
                             WeightAwareGuaranteedPairing(blank,
                                 [i \in 1..n |-> i], b.max_rematches))
                    ELSE pairs \o bye,
        rounds |-> <<GuaranteedRound(1, IN_PROGRESS, b.match_count, b.max_rematches)>>]

\* _generate_next_guaranteed_round
GenerateNextGuaranteedRound(db, completed) ==
    LET target_matches_per_fighter == db.rounds[completed].total_matches_per_fighter
        max_rematches == db.rounds[completed].max_rematches
        filtered_standings == FilteredStandings(db, target_matches_per_fighter)
        pairings == IF db.bracket.weight_based_pairing
                    THEN WeightAwareGuaranteedPairing(db, filtered_standings,
                                                      max_rematches)
                    ELSE GuaranteedPairing(db, filtered_standings, max_rematches)
        next_round_num == db.rounds[completed].round_number + 1
    IN IF FightersNeedingMatches(db, target_matches_per_fighter) = {}
       THEN Finalize(db)
       ELSE IF pairings = <<>> THEN Finalize(db)
       ELSE [db EXCEPT
               !.rounds = Append(db.rounds,
                             GuaranteedRound(next_round_num, IN_PROGRESS,
                                             target_matches_per_fighter,
                                             max_rematches)),
               !.matches = db.matches \o
                             PairingMatches(Len(db.rounds) + 1, pairings)]

\* _generate_next_round: dispatch on the format (auto_generate is always set)
GenerateNextRound(db, completed, last) ==
    IF db.bracket.format_type = DOUBLE_ELIMINATION
    THEN GenerateNextDoubleElimRound(db, completed, last)
    ELSE IF db.bracket.format_type = ROUND_ROBIN
         THEN GenerateNextRoundRobinRound(db)
         ELSE IF db.bracket.format_type = SWISS
              THEN GenerateNextSwissRound(db, completed)
              ELSE IF db.bracket.format_type = GUARANTEED_MATCHES
                   THEN GenerateNextGuaranteedRound(db, completed)
                   ELSE db

CheckRoundCompletion(db, rid, last) ==
    IF rid \notin DOMAIN db.rounds \/ MatchesInRound(db, rid) = {} THEN db
    ELSE IF \A m \in MatchesInRound(db, rid) : db.matches[m].match_status = COMPLETED
         THEN GenerateNextRound(SetRoundStatus(db, rid, COMPLETED), rid, last)
         ELSE db

\* ------------------------------------------------ double-elimination skeleton
\* ids (creation order) of the rows of ms that belong to round rid
IdsInRound(ms, rid) ==
    SortedIds({i \in 1..Len(ms) : ms[i].bracket_round_id = rid})

DropDownMatches(rid, wm) ==
    LET num_losers == Len(wm)
        pairs == [j \in 1..(num_losers \div 2) |->
                    Match(rid, 0, 0, PENDING, NoResult, NoMethod,
                          At(wm, 2 * j - 1), At(wm, 2 * j), FALSE, FALSE, j)]
        bye == IF num_losers % 2 = 1
               THEN <<Match(rid, 0, 0, PENDING, NoResult, NoMethod,
                            wm[num_losers], 0, FALSE, FALSE, (num_losers \div 2) + 1)>>
               ELSE <<>>
    IN pairs \o bye

AdvancementMatches(rid, cur, prev) ==
    LET total_fighters == Len(cur) + Len(prev)
        num == total_fighters \div 2
        ms == [j \in 1..num |->
                 Match(rid, 0, 0, PENDING, NoResult, NoMethod,
                       At(cur, j), At(prev, j), TRUE, TRUE, j)]
        previous_idx == Min(num, Len(prev))
        drop_down_idx == Min(num, Len(cur))
        bye_match == IF previous_idx < Len(prev) THEN prev[previous_idx + 1]
                     ELSE IF drop_down_idx < Len(cur) THEN cur[drop_down_idx + 1]
                     ELSE 0
        bye == IF total_fighters % 2 = 1 /\ bye_match # 0
               THEN <<Match(rid, 0, 0, PENDING, NoResult, NoMethod,
                            bye_match, 0, TRUE, FALSE, num + 1)>>
               ELSE <<>>
    IN ms \o bye

\* st = [matches, rounds, prev]: rows so far and losers_previous_matches
RECURSIVE LosersBracket(_, _, _)
LosersBracket(feed, W, st) ==
    IF feed > W - 1 THEN st
    ELSE LET dd_rid == Len(st.rounds) + 1
             dd == DropDownMatches(dd_rid, IdsInRound(st.matches, feed))
             cur == [j \in 1..Len(dd) |-> Len(st.matches) + j]
             ms1 == st.matches \o dd
             rs1 == Append(st.rounds,
                       BracketRound(dd_rid, "losers", PENDING, "drop_down", feed))
             adv_rid == dd_rid + 1
             adv == AdvancementMatches(adv_rid, cur, st.prev)
         IN IF st.prev = <<>>
            THEN LosersBracket(feed + 1, W,
                    [matches |-> ms1, rounds |-> rs1, prev |-> cur])
            ELSE LosersBracket(feed + 1, W,
                    [matches |-> ms1 \o adv,
                     rounds |-> Append(rs1,
                        BracketRound(adv_rid, "losers", PENDING, "advancement", 0)),
                     prev |-> [j \in 1..Len(adv) |-> Len(ms1) + j]])

DoubleElimination(n) ==
    LET W == CeilLog2(n)
        total_losers_rounds == IF W > 1 THEN 2 * (W - 1) ELSE 0
        winners == [k \in 1..W |->
                      BracketRound(k, "winners",
                                   IF k = 1 THEN IN_PROGRESS ELSE PENDING, "none", 0)]
        lb == LosersBracket(1, W,
                 [matches |-> EliminationMatches(n), rounds |-> winners, prev |-> <<>>])
        wf == IdsInRound(lb.matches, W)
        lf == IF W + total_losers_rounds \in (W + 1)..Len(lb.rounds)
              THEN IdsInRound(lb.matches, W + total_losers_rounds)
              ELSE <<>>
        gf_rid == Len(lb.rounds) + 1
    IN [matches |-> Append(lb.matches,
                       Match(gf_rid, 0, 0, PENDING, NoResult, NoMethod,
                             wf[Len(wf)], At(lf, Len(lf)), TRUE, TRUE, 1)),
        rounds |-> Append(lb.rounds,
                       BracketRound(W + total_losers_rounds + 1, "finals",
                                    PENDING, "none", 0))]

\* ------------------------------------------------------ round-robin skeleton
RECURSIVE RoundRobinMatches(_, _, _, _)
RoundRobinMatches(k, N, parts, acc) ==
    IF k > N - 1 THEN acc
    ELSE LET played == {j \in 1..(N \div 2) : parts[j] # 0 /\ parts[N + 1 - j] # 0}
             order == SortedIds(played)
             ms == [i \in 1..Len(order) |->
                      Match(k, parts[order[i]], parts[N + 1 - order[i]],
                            IF k = 1 THEN READY ELSE PENDING,
                            NoResult, NoMethod, 0, 0, TRUE, TRUE, order[i])]
             rotated == [i \in 1..N |->
                           IF i = 1 THEN parts[1]
                           ELSE IF i = 2 THEN parts[N]
                           ELSE parts[i - 1]]
         IN RoundRobinMatches(k + 1, N, rotated, acc \o ms)

\* a faulty variant without the bye slot of an odd field; C21 fails under it
RoundRobinWithoutByeSlot(n) ==
    LET N == n
        parts == [i \in 1..N |-> IF i <= n THEN i ELSE 0]
    IN [matches |-> RoundRobinMatches(1, N, parts, <<>>),
        rounds |-> [k \in 1..(N - 1) |->
                      BracketRound(k, "none",
                                   IF k = 1 THEN IN_PROGRESS ELSE PENDING, "none", 0)]]

RoundRobin(n) ==
    LET N == IF n % 2 = 1 THEN n + 1 ELSE n
        parts == [i \in 1..N |-> IF i <= n THEN i ELSE 0]
    IN [matches |-> RoundRobinMatches(1, N, parts, <<>>),
        rounds |-> [k \in 1..(N - 1) |->
                      BracketRound(k, "none",
                                   IF k = 1 THEN IN_PROGRESS ELSE PENDING, "none", 0)]]

SingleElimination(n) ==
    [matches |-> EliminationMatches(n), rounds |-> SingleElimRounds(n)]

\* ------------------------------------------------------------- operations
\* generate_bracket after its guards: skeleton, bye propagation, generated flag
GenerateBracket(db) ==
    LET n == db.bracket.participants
        sk == IF db.bracket.format_type = SINGLE_ELIMINATION THEN SingleElimination(n)
              ELSE IF db.bracket.format_type = DOUBLE_ELIMINATION THEN DoubleElimination(n)
              ELSE IF db.bracket.format_type = SWISS THEN Swiss(db.bracket)
              ELSE IF db.bracket.format_type = GUARANTEED_MATCHES
                   THEN GuaranteedMatches(db.bracket)
              ELSE RoundRobin(n)
        db1 == [db EXCEPT !.matches = sk.matches, !.rounds = sk.rounds]
        db2 == IF db.bracket.format_type \in {SINGLE_ELIMINATION, DOUBLE_ELIMINATION}
               THEN PropagateByes(db1, 1) ELSE db1
    IN [db2 EXCEPT !.bracket = [db2.bracket EXCEPT !.is_generated = TRUE]]

\* the bracket row after delete_bracket
NoBracket ==
    [format_type |-> NoFormat, participants |-> 0,
     is_generated |-> FALSE, is_finalized |-> FALSE]

\* a faulty variant that keeps the matches that have a result; C25 fails
\* under it
DeleteBracketKeepingPlayed(db) ==
    LET round_ids == DOMAIN db.rounds
        deleted == {m \in DOMAIN db.matches :
                       /\ db.matches[m].bracket_round_id \in round_ids
                       /\ db.matches[m].result = NoResult}
    IN [bracket |-> NoBracket,
        rounds |-> <<>>,
        matches |-> [m \in DOMAIN db.matches \ deleted |-> db.matches[m]]]

\* delete_bracket: the matches of the bracket's rounds, the rounds, the
\* bracket row
DeleteBracket(db) ==
    LET round_ids == DOMAIN db.rounds
        deleted == {m \in DOMAIN db.matches :
                       db.matches[m].bracket_round_id \in round_ids}
    IN [bracket |-> NoBracket,
        rounds |-> <<>>,
        matches |-> [m \in DOMAIN db.matches \ deleted |-> db.matches[m]]]

\* the errors generate_bracket raises (ValueError, answered with HTTP 400)
NoError == "none"
NotFound == "not found"
AlreadyGenerated == "already generated"
TooFewParticipants == "too few participants"

\* a faulty variant that validates the double-elimination field only after
\* the bracket has been marked generated; C24 fails under it
TryGenerateBracketLateCheck(db) ==
    IF db.bracket.format_type = NoFormat
    THEN [error |-> NotFound, db |-> db]
    ELSE IF db.bracket.is_generated
    THEN [error |-> AlreadyGenerated, db |-> db]
    ELSE IF db.bracket.participants < 2
    THEN [error |-> TooFewParticipants, db |-> db]
    ELSE IF /\ db.bracket.format_type = DOUBLE_ELIMINATION
            /\ db.bracket.participants < MinDoubleElim
    THEN [error |-> TooFewParticipants,
          db |-> [db EXCEPT !.bracket = [db.bracket EXCEPT !.is_generated = TRUE]]]
    ELSE [error |-> NoError, db |-> GenerateBracket(db)]

\* generate_bracket with its checks, in the order of the code: not found,
\* already generated, fewer than 2 participants, then inside the double-elimination
\* generator the minimum field; every raise precedes the first write
TryGenerateBracket(db) ==
    IF db.bracket.format_type = NoFormat
    THEN [error |-> NotFound, db |-> db]
    ELSE IF db.bracket.is_generated
    THEN [error |-> AlreadyGenerated, db |-> db]
    ELSE IF db.bracket.participants < 2
    THEN [error |-> TooFewParticipants, db |-> db]
    ELSE IF /\ db.bracket.format_type = DOUBLE_ELIMINATION
            /\ db.bracket.participants < MinDoubleElim
    THEN [error |-> TooFewParticipants, db |-> db]
    ELSE [error |-> NoError, db |-> GenerateBracket(db)]

UpdateMatchResult(db, mid, result, method, duration, last) ==
    LET db1 == [db EXCEPT !.matches =
                  [db.matches EXCEPT ![mid] =
                      [@ EXCEPT !.result = result,
                                !.method = method,
                                !.duration_seconds = duration,
                                !.match_status = COMPLETED,
                                !.completed_at = db.now]]]
        db2 == PropagateResult(db1, mid)
    IN IF db.matches[mid].bracket_round_id # 0
       THEN CheckRoundCompletion(db2, db.matches[mid].bracket_round_id, last)
       ELSE db2

\* a faulty variant that clears the slots and leaves the status alone; C1
\* fails under it
UndoDependentKeepingStatus(dep, mid, winner_id, loser_id) ==
    LET d1 == IF /\ dep.depends_on_match_a = mid
                 /\ dep.a_player_id \in {winner_id, loser_id}
              THEN [dep EXCEPT !.a_player_id = 0]
              ELSE dep
    IN IF /\ d1.depends_on_match_b = mid
          /\ d1.b_player_id \in {winner_id, loser_id}
       THEN [d1 EXCEPT !.b_player_id = 0]
       ELSE d1

\* the rows undo_match_result rewrites among the dependents of mid
UndoDependent(dep, mid, winner_id, loser_id) ==
    LET d1 == IF /\ dep.depends_on_match_a = mid
                 /\ dep.a_player_id \in {winner_id, loser_id}
              THEN [dep EXCEPT !.a_player_id = 0, !.match_status = PENDING]
              ELSE dep
    IN IF /\ d1.depends_on_match_b = mid
          /\ d1.b_player_id \in {winner_id, loser_id}
       THEN [d1 EXCEPT !.b_player_id = 0, !.match_status = PENDING]
       ELSE d1

UndoMatchResult(db, mid) ==
    LET mt == db.matches[mid]
        cleared == [mt EXCEPT !.result = NoResult,
                              !.method = NoMethod,
                              !.duration_seconds = NoDuration,
                              !.completed_at = NoTime,
                              !.match_status =
                                  IF HasBoth(mt) THEN READY ELSE PENDING]
    IN [db EXCEPT !.matches =
          [d \in DOMAIN db.matches |->
              IF d = mid THEN cleared
              ELSE IF d \in DependentsOf(db, mid)
                   THEN UndoDependent(db.matches[d], mid, WinnerOf(mt), LoserOf(mt))
                   ELSE db.matches[d]]]

\* a faulty variant that keeps the reference to the deleted match; C9 fails
\* under it
DeleteDependentKeepingReference(dep, mid) ==
    LET d1 == IF dep.depends_on_match_a = mid
              THEN [dep EXCEPT !.a_player_id = 0,
                               !.match_status = PENDING]
              ELSE dep
    IN IF d1.depends_on_match_b = mid
       THEN [d1 EXCEPT !.b_player_id = 0,
                       !.match_status = PENDING]
       ELSE d1

\* the rows delete_match rewrites among the dependents of mid
DeleteDependent(dep, mid) ==
    LET d1 == IF dep.depends_on_match_a = mid
              THEN [dep EXCEPT !.depends_on_match_a = 0,
                               !.a_player_id = 0,
                               !.match_status = PENDING]
              ELSE dep
    IN IF d1.depends_on_match_b = mid
       THEN [d1 EXCEPT !.depends_on_match_b = 0,
                       !.b_player_id = 0,
                       !.match_status = PENDING]
       ELSE d1

DeleteMatch(db, mid) ==
    [db EXCEPT !.matches =
        [d \in DOMAIN db.matches \ {mid} |->
            IF d \in DependentsOf(db, mid)
            THEN DeleteDependent(db.matches[d], mid)
            ELSE db.matches[d]]]

\* ------------------------------------------------------------ state machine
VARIABLES bracket, rounds, matches, irregular, now, returned, players, workers

vars == <<bracket, rounds, matches, irregular, now, returned, players, workers>>

\* completed_at = datetime.utcnow() of every row an operation creates
\* Completed or turns Completed (bye rows, automatic byes, posted results)
StampCompleted(before, after, t) ==
    [m \in DOMAIN after |->
        IF /\ after[m].match_status = COMPLETED
           /\ m \in DOMAIN before => before[m].match_status # COMPLETED
        THEN [after[m] EXCEPT !.completed_at = t]
        ELSE after[m]]

DB == [bracket |-> bracket, rounds |-> rounds, matches |-> matches, now |-> now]

Store(db) ==
    /\ bracket' = db.bracket
    /\ rounds' = db.rounds
    /\ matches' = StampCompleted(matches, db.matches, now)
    /\ now' = now
    /\ returned' = {}
    /\ players' = players
    /\ workers' = workers

Fields ==
    [format_type : {SINGLE_ELIMINATION}, participants : 2..MaxSingleElim]
    \cup [format_type : {ROUND_ROBIN}, participants : 2..MaxRoundRobin]
    \cup [format_type : {DOUBLE_ELIMINATION}, participants : {MinDoubleElim}]

Init ==
    /\ \E f \in Fields :
          bracket = [format_type |-> f.format_type,
                     participants |-> f.participants,
                     is_generated |-> FALSE,
                     is_finalized |-> FALSE]
    /\ rounds = <<>>
    /\ matches = <<>>
    /\ irregular = 0
    /\ now = 0
    /\ returned = {}
    /\ players = <<>>
    /\ workers = <<>>

Results == {PLAYER_A_WIN, PLAYER_B_WIN, DRAW, NO_CONTEST}
Decisive == {PLAYER_A_WIN, PLAYER_B_WIN}

\* a result posted in turn: a decisive result on a READY match
InTurn(m, r) == matches[m].match_status = READY /\ r \in Decisive

Played == Cardinality({m \in DOMAIN matches : matches[m].result # NoResult})

\* exploration window of a double-elimination bracket around irregular steps
Shallow == bracket.format_type = DOUBLE_ELIMINATION => Played < MaxDoubleElimPlayed

MayPost(m, r) ==
    IF InTurn(m, r) THEN irregular = 0 \/ Shallow
    ELSE irregular < MaxIrregular /\ Shallow

\* choices for the row an unordered query over the round of m returns last
LastChoices(m) ==
    IF /\ matches[m].bracket_round_id \in DOMAIN rounds
       /\ rounds[matches[m].bracket_round_id].bracket_type = "losers"
    THEN MatchesInRound(DB, matches[m].bracket_round_id)
    ELSE {m}

\* the generate endpoint: the store is left as the call leaves it, whether
\* it succeeds or fails
Generate ==
    /\ Store(TryGenerateBracket(DB).db)
    /\ UNCHANGED irregular

Update ==
    \E m \in DOMAIN matches, r \in Results :
        /\ MayPost(m, r)
        /\ \E last \in LastChoices(m) :
              Store(UpdateMatchResult(DB, m, r, Submission, 180, last))
        /\ irregular' = IF InTurn(m, r) THEN irregular ELSE irregular + 1

Undo ==
    \E m \in DOMAIN matches :
        /\ matches[m].result # NoResult
        /\ irregular < MaxIrregular /\ Shallow
        /\ Store(UndoMatchResult(DB, m))
        /\ irregular' = irregular + 1

Delete ==
    \E m \in DOMAIN matches :
        /\ irregular < MaxIrregular /\ Shallow
        /\ Store(DeleteMatch(DB, m))
        /\ irregular' = irregular + 1

Next == Generate \/ Update \/ Undo \/ Delete

Spec == Init /\ [][Next]_vars

\* ------------------------------------------------------------------ claims
Generated == bracket.is_generated

RoundOf(m) == matches[m].bracket_round_id

\* C1: every match whose status is Ready has both fighter slots non-null
C1_NoOrphanReady ==
    \A m \in DOMAIN matches :
        matches[m].match_status = READY => HasBoth(matches[m])

\* a dependent that propagation had made Ready (its round was activated for
\* it) lost a slot to the undo of its feeder and went back to Pending, while
\* the feeder is Ready again
C1_Witness ==
    /\ irregular > 0
    /\ \E m \in DOMAIN matches :
          /\ matches[m].match_status = PENDING
          /\ ~HasBoth(matches[m])
          /\ rounds[RoundOf(m)].status = IN_PROGRESS
          /\ \E f \in DOMAIN matches :
                /\ f \in {matches[m].depends_on_match_a, matches[m].depends_on_match_b}
                /\ matches[f].match_status = READY
                /\ HasBoth(matches[f])

\* C2: every match whose method is "Bye" is Completed, PlayerAWin, slot B null
C2_ByeCompleteness ==
    \A m \in DOMAIN matches :
        matches[m].method = Bye =>
            /\ matches[m].match_status = COMPLETED
            /\ matches[m].result = PLAYER_A_WIN
            /\ matches[m].b_player_id = 0

\* C3: a match with a recorded result AWin, BWin or Draw has status Completed
C3_ResultImpliesCompleted ==
    \A m \in DOMAIN matches :
        matches[m].result \in {PLAYER_A_WIN, PLAYER_B_WIN, DRAW} =>
            matches[m].match_status = COMPLETED

\* the round with the highest round_number among the given ones
LastRound(rs) ==
    CHOOSE r \in rs : \A q \in rs : rounds[q].round_number <= rounds[r].round_number

AllCompleted(ms) == \A m \in ms : matches[m].match_status = COMPLETED

AllDecisive(ms) == \A m \in ms : matches[m].result \in Decisive

\* only decisive results on Ready matches have been posted so far
PlayedInTurn == Generated /\ irregular = 0

\* C4: single elimination has no stuck match: once round 1 is Completed every
\* round-2 match is Ready with both slots or resolved, and when no Ready
\* match is left to post a result on, the Final is Completed
C4_NoStuckSingleElim ==
    (bracket.format_type = SINGLE_ELIMINATION /\ PlayedInTurn) =>
        /\ (2 \in DOMAIN rounds /\ AllCompleted(MatchesInRound(DB, 1))) =>
              \A m \in MatchesInRound(DB, 2) :
                  \/ matches[m].match_status = READY /\ HasBoth(matches[m])
                  \/ matches[m].match_status = COMPLETED
        /\ (\A m \in DOMAIN matches : matches[m].match_status # READY) =>
              AllCompleted(MatchesInRound(DB, LastRound(DOMAIN rounds)))

\* C5: double elimination: once the winners final and the last losers round
\* are both Completed with decisive results, the grand-finals match has both
\* slots and is Ready (or already played) and its round is InProgress
C5_GrandFinalsActivate ==
    (bracket.format_type = DOUBLE_ELIMINATION /\ PlayedInTurn) =>
        LET wf == MatchesInRound(DB, LastRound(WinnersRounds(DB)))
            ll == LastRound(LosersRounds(DB))
            gf == LastRound(FinalsRounds(DB))
        IN (/\ AllCompleted(wf) /\ AllDecisive(wf)
            /\ rounds[ll].status = COMPLETED
            /\ AllCompleted(MatchesInRound(DB, ll))
            /\ AllDecisive(MatchesInRound(DB, ll)))
           => /\ rounds[gf].status \in {IN_PROGRESS, COMPLETED}
              /\ \A m \in MatchesInRound(DB, gf) :
                    /\ HasBoth(matches[m])
                    /\ matches[m].match_status \in {READY, COMPLETED}

\* what the round trip promises for match m and its dependents
Restored(before, after, m) ==
    /\ after.matches[m].match_status = READY
    /\ after.matches[m].result = NoResult
    /\ after.matches[m].method = NoMethod
    /\ after.matches[m].duration_seconds = NoDuration
    /\ \A d \in DependentsOf(before, m) :
          /\ before.matches[d].depends_on_match_a = m => after.matches[d].a_player_id = 0
          /\ before.matches[d].depends_on_match_b = m => after.matches[d].b_player_id = 0
          /\ after.matches[d].match_status = PENDING
          /\ after.matches[d].result \in {NoResult, before.matches[d].result}
          /\ after.matches[d].method \in {NoMethod, before.matches[d].method}

\* C6: for a Ready match M, updateMatchResult(M, r) followed at once by
\* undoMatchResult(M) leaves M Ready without result, method or duration and
\* every dependent with the slot fed by M cleared, Pending, and without a
\* result or method it did not have before
C6_UpdateUndoRoundTrip ==
    \A m \in DOMAIN matches :
        matches[m].match_status = READY =>
            \A r \in Results, last \in LastChoices(m) :
                Restored(DB,
                         UndoMatchResult(
                             UpdateMatchResult(DB, m, r, Submission, 180, last), m),
                         m)

\* C7: a round that is Completed stays Completed in every step
C7_CompletedRoundsStay ==
    [][\A r \in DOMAIN rounds :
          rounds[r].status = COMPLETED =>
              r \in DOMAIN rounds' /\ rounds'[r].status = COMPLETED]_vars

\* an undo left a Ready match inside a round that is still Completed
C7_Witness ==
    \E m \in DOMAIN matches :
        /\ matches[m].match_status = READY
        /\ rounds[RoundOf(m)].status = COMPLETED

InProgressRounds(lane) ==
    {r \in DOMAIN rounds :
        rounds[r].status = IN_PROGRESS /\ rounds[r].bracket_type = lane}

\* C8: at most one InProgress round per lane in double elimination, exactly
\* one InProgress round in a generated, non-finalized bracket of another format
C8_RoundFrontier ==
    Generated =>
        IF bracket.format_type = DOUBLE_ELIMINATION
        THEN \A lane \in {"winners", "losers", "finals"} :
                Cardinality(InProgressRounds(lane)) <= 1
        ELSE ~bracket.is_finalized => Cardinality(InProgressRounds("none")) = 1

\* a dependency reference is valid: an existing match of an earlier round
EarlierRound(m, f) ==
    f # 0 => /\ f \in DOMAIN matches
             /\ RoundOf(f) \in DOMAIN rounds
             /\ rounds[RoundOf(f)].round_number < rounds[RoundOf(m)].round_number

StrictlyEarlierDependencies ==
    \A m \in DOMAIN matches :
        /\ EarlierRound(m, matches[m].depends_on_match_a)
        /\ EarlierRound(m, matches[m].depends_on_match_b)

HasDependency(m) ==
    matches[m].depends_on_match_a # 0 \/ matches[m].depends_on_match_b # 0

\* sources of the dependency graph: matches without a dependency that feed
\* some other match
SourcesInRoundOne ==
    \A m \in DOMAIN matches :
        (~HasDependency(m) /\ DependentsOf(DB, m) # {}) =>
            rounds[RoundOf(m)].round_number = 1

C10_DoubleElimRoundCount ==
    (bracket.format_type = DOUBLE_ELIMINATION /\ Generated) =>
        LET W == CeilLog2(bracket.participants)
        IN /\ Cardinality(DOMAIN rounds) = W + 2 * (W - 1) + 1
           /\ Cardinality(WinnersRounds(DB)) = W
           /\ Cardinality(LosersRounds(DB)) = 2 * (W - 1)
           /\ Cardinality(FinalsRounds(DB)) = 1
           /\ \A r \in FinalsRounds(DB) :
                 rounds[r].round_number = W + 2 * (W - 1) + 1

\* C11: the grand-finals round of a generated double-elimination bracket holds
\* exactly one match; its slot-A dependency is the winners final, its slot-B
\* dependency is the non-null losers final, both taking the winner, and the
\* last losers round holds that single match
C11_GrandFinalsDependencies ==
    (bracket.format_type = DOUBLE_ELIMINATION /\ PlayedInTurn) =>
        LET wf == MatchesInRound(DB, LastRound(WinnersRounds(DB)))
            lf == MatchesInRound(DB, LastRound(LosersRounds(DB)))
            gf == MatchesInRound(DB, LastRound(FinalsRounds(DB)))
        IN /\ Cardinality(gf) = 1
           /\ Cardinality(lf) = 1
           /\ \A g \in gf :
                 /\ matches[g].depends_on_match_a \in wf
                 /\ matches[g].depends_on_match_b # 0
                 /\ matches[g].depends_on_match_b \in lf
                 /\ matches[g].requires_winner_a
                 /\ matches[g].requires_winner_b

\* matches with a played result: a result on record that is not a bye-forward
PlayedResults ==
    {m \in DOMAIN matches : matches[m].result # NoResult /\ matches[m].method # Bye}

\* every result on record so far is a win of fighter A
OnlyAWins == \A m \in DOMAIN matches : matches[m].result \in {NoResult, PLAYER_A_WIN}

NoneReady == \A m \in DOMAIN matches : matches[m].match_status # READY

\* C12: double elimination with 8 fighters and A winning every contested
\* match: when the run is over, 15 matches carry a played result and the
\* grand finals were won by the winners-bracket champion
C12_DoubleElimFullRun ==
    (/\ bracket.format_type = DOUBLE_ELIMINATION
     /\ bracket.participants = 8
     /\ PlayedInTurn /\ OnlyAWins /\ NoneReady) =>
        LET wf == MatchesInRound(DB, LastRound(WinnersRounds(DB)))
            gf == MatchesInRound(DB, LastRound(FinalsRounds(DB)))
        IN /\ Cardinality(PlayedResults) = 15
           /\ \A g \in gf :
                 /\ matches[g].match_status = COMPLETED
                 /\ \A w \in wf : WinnerOf(matches[g]) = WinnerOf(matches[w])
                 /\ WinnerOf(matches[g]) # 0

\* ------------------------------------------- elimination runs played in turn
MaxElimField == 8           \* largest single-elimination field played to the end

InitPlay ==
    /\ \E n \in 2..MaxElimField :
          bracket = [format_type |-> SINGLE_ELIMINATION,
                     participants |-> n,
                     is_generated |-> FALSE,
                     is_finalized |-> FALSE]
    /\ rounds = <<>>
    /\ matches = <<>>
    /\ irregular = 0
    /\ now = 0
    /\ returned = {}
    /\ players = <<>>
    /\ workers = <<>>

\* a decisive result posted on a Ready match
PostInTurn ==
    \E m \in DOMAIN matches, r \in Decisive :
        /\ InTurn(m, r)
        /\ Store(UpdateMatchResult(DB, m, r, Submission, 180, m))
        /\ UNCHANGED irregular

NextPlay == Generate \/ PostInTurn

SpecPlay == InitPlay /\ [][NextPlay]_vars

Contested == {m \in DOMAIN matches : HasBoth(matches[m])}

\* C13: single elimination creates ceil(log2 n) rounds, and a full run plays
\* exactly n-1 contested matches, every other match row being a bye
C13_SingleElimCounts ==
    (bracket.format_type = SINGLE_ELIMINATION /\ Generated) =>
        /\ Len(rounds) = CeilLog2(bracket.participants)
        /\ NoneReady =>
              /\ Cardinality(Contested \cap PlayedResults) = bracket.participants - 1
              /\ \A m \in DOMAIN matches \ Contested :
                    matches[m].method = Bye /\ matches[m].match_status = COMPLETED

\* C14: single elimination with 8 participants and A winning every Ready
\* match: 3 rounds, 7 matches, and when no Ready match is left all matches are
\* Completed and the Final was won by the first participant
C14_EightFighterRun ==
    (/\ bracket.format_type = SINGLE_ELIMINATION
     /\ bracket.participants = 8
     /\ Generated /\ OnlyAWins) =>
        /\ Len(rounds) = 3
        /\ Cardinality(DOMAIN matches) = 7
        /\ NoneReady =>
              /\ AllCompleted(DOMAIN matches)
              /\ \A m \in MatchesInRound(DB, 3) : WinnerOf(matches[m]) = 1

\* the Final of an 8-fighter bracket was reached by A-wins only and played
C14_Witness ==
    /\ bracket.format_type = SINGLE_ELIMINATION
    /\ bracket.participants = 8
    /\ Generated /\ OnlyAWins /\ NoneReady
    /\ \E m \in MatchesInRound(DB, 3) : matches[m].match_status = COMPLETED

\* ------------------------------------------------------------ swiss brackets
MaxSwiss == 6               \* largest Swiss field explored
MaxSwissRounds == 2         \* largest configured number of Swiss rounds

SwissFields ==
    [participants : 2..MaxSwiss, rounds_config : 0..MaxSwissRounds]

InitSwiss ==
    /\ \E f \in SwissFields :
          bracket = [format_type |-> SWISS,
                     participants |-> f.participants,
                     rounds_config |-> f.rounds_config,
                     is_generated |-> FALSE,
                     is_finalized |-> FALSE]
    /\ rounds = <<>>
    /\ matches = <<>>
    /\ irregular = 0
    /\ now = 0
    /\ returned = {}
    /\ players = <<>>
    /\ workers = <<>>

\* the results posted while a Swiss bracket is explored
SwissResults == {PLAYER_A_WIN, PLAYER_B_WIN, DRAW}

\* a result posted on a Ready match
PostResult ==
    \E m \in DOMAIN matches, r \in SwissResults :
        /\ matches[m].match_status = READY
        /\ Store(UpdateMatchResult(DB, m, r, Submission, 180, m))
        /\ UNCHANGED irregular

NextSwiss == Generate \/ PostResult

SpecSwiss == InitSwiss /\ [][NextSwiss]_vars

\* the fighters that appear in the matches of round r
FightersIn(r) ==
    {q \in 1..bracket.participants :
        \E m \in MatchesInRound(DB, r) :
            q \in {matches[m].a_player_id, matches[m].b_player_id}}

\* the round-1 matches that fighter q appears in
RoundOneMatchesOf(q) ==
    {m \in MatchesInRound(DB, 1) :
        q \in {matches[m].a_player_id, matches[m].b_player_id}}

\* C15: Swiss round 1 pairs participants[i] with participants[n-1-i], gives
\* the bye of an odd field to the middle participant, and every participant
\* appears in exactly one round-1 match
C15_SwissRoundOne ==
    (bracket.format_type = SWISS /\ Generated) =>
        LET n == bracket.participants
        IN /\ \A i \in 1..(n \div 2) :
                 \E m \in MatchesInRound(DB, 1) :
                     /\ matches[m].a_player_id = i
                     /\ matches[m].b_player_id = n + 1 - i
           /\ n % 2 = 1 =>
                 \A m \in MatchesInRound(DB, 1) :
                     matches[m].b_player_id = 0 =>
                         /\ matches[m].a_player_id = (n \div 2) + 1
                         /\ matches[m].method = Bye
                         /\ matches[m].match_status = COMPLETED
           /\ \A q \in 1..n : Cardinality(RoundOneMatchesOf(q)) = 1

\* p and q met in a round created before round r
MetBefore(r, p, q) ==
    \E m \in DOMAIN matches :
        /\ RoundOf(m) < r
        /\ HasBoth(matches[m])
        /\ {matches[m].a_player_id, matches[m].b_player_id} = {p, q}

\* the fighters of S can be paired without a rematch, with a bye for one
\* fighter when S is odd
RECURSIVE FreshPairingExists(_, _)
FreshPairingExists(r, S) ==
    IF S = {} THEN TRUE
    ELSE LET p == CHOOSE x \in S : \A y \in S : x <= y
         IN \/ \E q \in S \ {p} :
                  ~MetBefore(r, p, q) /\ FreshPairingExists(r, S \ {p, q})
            \/ /\ Cardinality(S) % 2 = 1
               /\ FreshPairingExists(r, S \ {p})
            \/ /\ Cardinality(S) % 2 = 1
               /\ \E b \in S \ {p} :
                     \E q \in S \ {p, b} :
                         ~MetBefore(r, p, q) /\ FreshPairingExists(r, S \ {p, q})

HasRematch(r) ==
    \E m \in MatchesInRound(DB, r) :
        /\ HasBoth(matches[m])
        /\ MetBefore(r, matches[m].a_player_id, matches[m].b_player_id)

MaxGuaranteed == 7          \* largest guaranteed-matches field, simple pairing
MaxMatchCount == 3          \* largest configured match_count
MaxRematches == 2           \* largest configured max_rematches
MaxSlots == 21              \* largest participants * match_count explored
MaxWeighed == 3             \* largest field paired by weight

\* the fighters of a weight-paired field: recorded weight (0 = none), weight
\* class of the entry (0 = none), recorded rating (0 = none)
Profiles ==
    {<<0, 0, 0>>, <<175, 1, 0>>, <<205, 1, 1600>>, <<250, 1, 0>>, <<250, 2, 0>>}

\* simple pairing under every config; weight-aware pairing under the
\* default config (no match_count, no max_rematches)
GuaranteedFields ==
    {f \in [participants : 2..MaxGuaranteed,
            match_count : 1..MaxMatchCount,
            max_rematches : 1..MaxRematches,
            weight_based_pairing : {FALSE},
            weights : {<<>>}, weight_classes : {<<>>}, elo_ratings : {<<>>}] :
        f.participants * f.match_count <= MaxSlots}
    \cup {[participants |-> Len(roster),
           match_count |-> DefaultMatchCount,
           max_rematches |-> DefaultMaxRematches,
           weight_based_pairing |-> TRUE,
           weights |-> [i \in DOMAIN roster |-> roster[i][1]],
           weight_classes |-> [i \in DOMAIN roster |-> roster[i][2]],
           elo_ratings |-> [i \in DOMAIN roster |-> roster[i][3]]] :
              roster \in UNION {[1..n -> Profiles] : n \in 2..MaxWeighed}}

InitGuaranteed ==
    /\ \E f \in GuaranteedFields :
          bracket = [format_type |-> GUARANTEED_MATCHES,
                     participants |-> f.participants,
                     match_count |-> f.match_count,
                     max_rematches |-> f.max_rematches,
                     weight_based_pairing |-> f.weight_based_pairing,
                     weights |-> f.weights,
                     weight_classes |-> f.weight_classes,
                     elo_ratings |-> f.elo_ratings,
                     is_generated |-> FALSE,
                     is_finalized |-> FALSE]
    /\ rounds = <<>>
    /\ matches = <<>>
    /\ irregular = 0
    /\ now = 0
    /\ returned = {}
    /\ players = <<>>
    /\ workers = <<>>

\* the results posted while a guaranteed-matches bracket is explored
GuaranteedResults == {PLAYER_A_WIN, PLAYER_B_WIN}

\* a result posted on a Ready match
PostGuaranteedResult ==
    \E m \in DOMAIN matches, r \in GuaranteedResults :
        /\ matches[m].match_status = READY
        /\ Store(UpdateMatchResult(DB, m, r, Submission, 195, m))
        /\ UNCHANGED irregular

NextGuaranteed == Generate \/ PostGuaranteedResult

\* PostGuaranteedResult is enabled exactly when some match is Ready
ReadyMatchExists ==
    \E m \in DOMAIN matches : matches[m].match_status = READY

\* every Ready match eventually receives a result: weak fairness of
\* PostGuaranteedResult, WF_vars(PostGuaranteedResult), with its enabling
\* condition written out
SpecGuaranteed ==
    /\ InitGuaranteed /\ [][NextGuaranteed]_vars
    /\ []<>(~ReadyMatchExists) \/ []<><<PostGuaranteedResult>>_vars

\* C18: in a guaranteed-matches bracket with target t, simple or weight-aware
\* pairing, if every Ready match eventually receives a result the bracket
\* eventually becomes finalized, and once it is finalized every participant
\* has exactly t Completed matches, byes included.  Results are the only
\* steps of a generated bracket, so a run in which every Ready match has
\* received its result and none is left must have reached the finalized
\* bracket.
C18_GuaranteedTermination ==
    /\ (bracket.is_generated /\ ~ReadyMatchExists) => bracket.is_finalized
    /\ bracket.is_finalized =>
          \A p \in 1..bracket.participants :
              MatchCount(DB, p) = bracket.match_count

\* C18 as a temporal property, under the fairness of SpecGuaranteed
C18_EventuallyFinalized ==
    /\ bracket.is_generated ~> bracket.is_finalized
    /\ [](bracket.is_finalized =>
            \A p \in 1..bracket.participants :
                MatchCount(DB, p) = bracket.match_count)

\* the part of C18 that holds: under simple pairing every round has a Ready
\* match, so the run ends finalized with t Completed matches each
C18_SimplePairingTerminates ==
    /\ (bracket.is_generated /\ ~bracket.weight_based_pairing)
           ~> bracket.is_finalized
    /\ [](bracket.is_finalized =>
            \A p \in 1..bracket.participants :
                MatchCount(DB, p) = bracket.match_count)

\* where C18 fails: a round of byes only, which no result will ever complete
C18_StuckOnByes ==
    /\ bracket.is_generated /\ ~bracket.is_finalized
    /\ ~ReadyMatchExists

\* the store as it was when round r was paired: the rounds before r and
\* their matches
PriorTo(r) ==
    LET before(mt) == mt.bracket_round_id < r
    IN [bracket |-> bracket,
        rounds |-> SubSeq(rounds, 1, r - 1),
        matches |-> SelectSeq(matches, before)]

\* the number of earlier matches between p and q
EarlierMatches(db, p, q) ==
    Cardinality({m \in DOMAIN db.matches :
        {db.matches[m].a_player_id, db.matches[m].b_player_id} = {p, q}})

\* the pairings of round r when a candidate passes the first pass exactly
\* when the two fighters have met fewer than max_rematches times, and is
\* otherwise taken only as a last resort
PairingWithinCap(r) ==
    LET db == PriorTo(r)
        max_rematches == rounds[r - 1].max_rematches
        standings == FilteredStandings(db, rounds[r - 1].total_matches_per_fighter)
        keys == {standings[i] : i \in 1..Len(standings)}
        capped == {pr \in SUBSET keys :
                      /\ Cardinality(pr) = 2
                      /\ \E p \in pr, q \in pr :
                            p < q /\ EarlierMatches(db, p, q) >= max_rematches}
    IN IF bracket.weight_based_pairing
       THEN WeightAwarePairingFrom(bracket, SortByRecordAndElo(db, standings),
                                   capped, 1, {}, <<>>)
       ELSE GuaranteedPairingFrom(SortByRecord(db, standings), capped, 1, {}, <<>>)

\* the pairings round r holds
PairingsOf(r) ==
    LET inr(mt) == mt.bracket_round_id = r
        rows == SelectSeq(matches, inr)
    IN [i \in 1..Len(rows) |-> <<rows[i].a_player_id, rows[i].b_player_id>>]

\* C19: in guaranteed-matches pairing a candidate is accepted in the first
\* pass exactly when the number of earlier matches between the two fighters
\* is below max_rematches, and a pairing at or above the cap is made only as
\* a last resort: every later round holds the pairings this rule yields.
C19_RematchCap ==
    bracket.format_type = GUARANTEED_MATCHES =>
        \A r \in 2..Len(rounds) : PairingsOf(r) = PairingWithinCap(r)

\* the two-fighter matches of a weight-paired guaranteed-matches bracket
WeighedMatches ==
    {m \in DOMAIN matches :
        /\ bracket.format_type = GUARANTEED_MATCHES
        /\ bracket.weight_based_pairing
        /\ HasBoth(matches[m])}

\* the absolute weight gap
WeightGap(w1, w2) == IF w1 >= w2 THEN w1 - w2 ELSE w2 - w1

\* C20 (as stated): every two-fighter match produced by weight-aware
\* guaranteed pairing has both weights missing, or both weights above
\* 200 lb, or a weight gap of at most 30 lb.
C20_WeightLegal ==
    \A m \in WeighedMatches :
        LET w1 == Weight(bracket, matches[m].a_player_id)
            w2 == Weight(bracket, matches[m].b_player_id)
        IN \/ w1 = 0 /\ w2 = 0
           \/ w1 > HeavyweightAbove /\ w2 > HeavyweightAbove
           \/ WeightGap(w1, w2) <= WeightGapLimit

\* the legality the pairing guarantees: a missing weight on either side
\* makes the pair legal
LegalPair(p, q) ==
    LET w1 == Weight(bracket, p)
        w2 == Weight(bracket, q)
    IN \/ w1 = 0 \/ w2 = 0
       \/ w1 > HeavyweightAbove /\ w2 > HeavyweightAbove
       \/ WeightGap(w1, w2) <= WeightGapLimit

\* C20 (amended): every two-fighter match produced by weight-aware guaranteed
\* pairing has at least one weight missing, or both weights above 200 lb, or
\* a weight gap of at most 30 lb; a fighter without a legal unpaired
\* candidate gets a bye, so two fighters given a bye in the same round are
\* never a legal pair.
C20_WeightLegalOrUnknown ==
    /\ \A m \in WeighedMatches :
          LegalPair(matches[m].a_player_id, matches[m].b_player_id)
    /\ (bracket.format_type = GUARANTEED_MATCHES /\ bracket.weight_based_pairing) =>
          \A m \in DOMAIN matches, k \in DOMAIN matches :
              /\ m # k
              /\ matches[m].bracket_round_id = matches[k].bracket_round_id
              /\ matches[m].method = Bye /\ matches[k].method = Bye
              => ~LegalPair(matches[m].a_player_id, matches[k].a_player_id)

\* a fighter without recorded weight facing a 250 lb fighter, a pair only
\* the missing weight makes legal, while a 175 lb fighter sits the round out
C20_Witness ==
    \E m \in WeighedMatches, k \in DOMAIN matches :
        /\ Weight(bracket, matches[m].a_player_id) = 0
        /\ Weight(bracket, matches[m].b_player_id) = 250
        /\ matches[k].bracket_round_id = matches[m].bracket_round_id
        /\ matches[k].method = Bye
        /\ Weight(bracket, matches[k].a_player_id) = 175

\* ---------------------------------------------------- round robin: full runs
MaxRoundRobinField == 5     \* largest round-robin field played to the end

InitRoundRobin ==
    /\ \E n \in 2..MaxRoundRobinField :
          bracket = [format_type |-> ROUND_ROBIN,
                     participants |-> n,
                     is_generated |-> FALSE,
                     is_finalized |-> FALSE]
    /\ rounds = <<>>
    /\ matches = <<>>
    /\ irregular = 0
    /\ now = 0
    /\ returned = {}
    /\ players = <<>>
    /\ workers = <<>>

\* the results posted while a round robin is played
RoundRobinResults == {PLAYER_A_WIN, DRAW}

\* a result posted on a Ready match
PostRoundRobinResult ==
    \E m \in DOMAIN matches, r \in RoundRobinResults :
        /\ matches[m].match_status = READY
        /\ Store(UpdateMatchResult(DB, m, r, Submission, 180, m))
        /\ UNCHANGED irregular

NextRoundRobin == Generate \/ PostRoundRobinResult

SpecRoundRobin == InitRoundRobin /\ [][NextRoundRobin]_vars

\* the matches between p and q
MatchesBetween(p, q) ==
    {m \in DOMAIN matches : {matches[m].a_player_id, matches[m].b_player_id} = {p, q}}

\* C21: a generated round robin of n participants has n - 1 rounds, n when
\* n is odd (the field is made even by a virtual bye slot); every unordered
\* pair of distinct participants meets in exactly one match, no participant
\* appears in two matches of one round, and there are n(n-1)/2 matches.
C21_RoundRobinComplete ==
    (bracket.format_type = ROUND_ROBIN /\ bracket.is_generated) =>
        LET n == bracket.participants
        IN /\ Len(rounds) = IF n % 2 = 1 THEN n ELSE n - 1
           /\ \A r \in DOMAIN rounds : rounds[r].round_number = r
           /\ \A m \in DOMAIN matches :
                 /\ HasBoth(matches[m])
                 /\ matches[m].a_player_id # matches[m].b_player_id
                 /\ matches[m].bracket_round_id \in DOMAIN rounds
           /\ \A p \in 1..n, q \in 1..n :
                 p < q => Cardinality(MatchesBetween(p, q)) = 1
           /\ \A m \in DOMAIN matches, k \in DOMAIN matches :
                 (m # k /\ matches[m].bracket_round_id = matches[k].bracket_round_id) =>
                     {matches[m].a_player_id, matches[m].b_player_id}
                       \cap {matches[k].a_player_id, matches[k].b_player_id} = {}
           /\ 2 * Len(matches) = n * (n - 1)

\* a generated round robin of five: five rounds of two matches
C21_Witness ==
    /\ bracket.format_type = ROUND_ROBIN /\ bracket.is_generated
    /\ bracket.participants = 5
    /\ Len(rounds) = 5 /\ Len(matches) = 10

\* the matches of round r
RoundMatches(ms, r) == {m \in DOMAIN ms : ms[m].bracket_round_id = r}

\* C22: a generated round robin starts with round 1 InProgress and its
\* matches Ready, every later round Pending with Pending matches; whenever
\* round k becomes Completed, round k+1 becomes InProgress with all of its
\* matches Ready, and when the last round becomes Completed the bracket is
\* finalized.
C22_RoundRobinProgression ==
    [][bracket.format_type = ROUND_ROBIN =>
        /\ (~bracket.is_generated /\ bracket'.is_generated) =>
              /\ \A r \in DOMAIN rounds' :
                    rounds'[r].status = IF r = 1 THEN IN_PROGRESS ELSE PENDING
              /\ \A m \in DOMAIN matches' :
                    matches'[m].match_status =
                        IF matches'[m].bracket_round_id = 1 THEN READY ELSE PENDING
        /\ \A r \in DOMAIN rounds :
              (rounds[r].status # COMPLETED /\ rounds'[r].status = COMPLETED) =>
                  IF r < Len(rounds)
                  THEN /\ rounds[r + 1].status = PENDING
                       /\ rounds'[r + 1].status = IN_PROGRESS
                       /\ \A m \in RoundMatches(matches', r + 1) :
                             matches'[m].match_status = READY
                       /\ ~bracket'.is_finalized
                  ELSE bracket'.is_finalized]_vars

\* a round robin of four played to the end: three rounds Completed, finalized
C22_Witness ==
    /\ bracket.format_type = ROUND_ROBIN
    /\ bracket.participants = 4
    /\ bracket.is_finalized
    /\ \A r \in DOMAIN rounds : rounds[r].status = COMPLETED
    /\ \A m \in DOMAIN matches : matches[m].match_status = COMPLETED

\* C23: updateMatchResult on a match that does not have both fighter slots
\* set fails and leaves the match unchanged: no step puts a posted result
\* (its method and the status Completed) on a match that lacked a slot.
C23_IncompleteMatchRejected ==
    [][\A m \in DOMAIN matches \cap DOMAIN matches' :
          (~HasBoth(matches[m]) /\ matches[m].result = NoResult) =>
              ~(/\ matches'[m].method = Submission
                /\ matches'[m].match_status = COMPLETED)]_vars

\* ------------------------------------------------ generate: failing calls
MaxCalled == 4              \* largest field of a bracket generate is called on

\* every format of the elimination / round-robin family with any number of
\* checked-in participants, double elimination also below its minimum
CalledFields ==
    [format_type : {SINGLE_ELIMINATION, ROUND_ROBIN}, participants : 0..MaxCalled]
    \cup [format_type : {DOUBLE_ELIMINATION}, participants : 0..MinDoubleElim]

InitCalls ==
    /\ \E f \in CalledFields :
          bracket = [format_type |-> f.format_type,
                     participants |-> f.participants,
                     is_generated |-> FALSE,
                     is_finalized |-> FALSE]
    /\ rounds = <<>>
    /\ matches = <<>>
    /\ irregular = 0
    /\ now = 0
    /\ returned = {}
    /\ players = <<>>
    /\ workers = <<>>

\* results posted in turn, a few only in a double elimination
PostWhileShallow == Shallow /\ PostInTurn

NextCalls == Generate \/ PostWhileShallow

SpecCalls == InitCalls /\ [][NextCalls]_vars

\* C24: generateBracket fails on an already generated bracket
\* (AlreadyGenerated) and on fewer than 2 participants, or fewer than 8 for
\* double elimination (TooFewParticipants); a failing call creates no round
\* and no match and leaves the generated flag as it was.
C24_GenerateFailsCleanly ==
    LET out == TryGenerateBracket(DB)
    IN /\ bracket.is_generated => out.error = AlreadyGenerated
       /\ (~bracket.is_generated /\ bracket.participants < 2) =>
              out.error = TooFewParticipants
       /\ (/\ ~bracket.is_generated
           /\ bracket.format_type = DOUBLE_ELIMINATION
           /\ bracket.participants < 8) => out.error = TooFewParticipants
       /\ out.error # NoError =>
              /\ out.db.rounds = rounds
              /\ out.db.matches = matches
              /\ out.db.bracket.is_generated = bracket.is_generated
       /\ (~bracket.is_generated /\ out.error # NoError) =>
              rounds = <<>> /\ matches = <<>>

\* a second call on a generated bracket with a result on record
C24_Witness ==
    /\ bracket.is_generated
    /\ rounds # <<>>
    /\ \E m \in DOMAIN matches : matches[m].result # NoResult
    /\ TryGenerateBracket(DB).error = AlreadyGenerated

\* a double elimination of seven, which can never be generated
C24_TooFewForDoubleElim ==
    /\ bracket.format_type = DOUBLE_ELIMINATION
    /\ bracket.participants = 7
    /\ TryGenerateBracket(DB).error = TooFewParticipants

\* ---------------------------------------------- create, play, delete bracket
MaxLifecycle == 4           \* largest field of a bracket that is deleted

\* every format; Swiss with its default number of rounds, guaranteed
\* matches with simple pairing under the default config
LifecycleBrackets ==
    {[format_type |-> f, participants |-> n,
      is_generated |-> FALSE, is_finalized |-> FALSE] :
        f \in {SINGLE_ELIMINATION, ROUND_ROBIN}, n \in 2..MaxLifecycle}
    \cup {[format_type |-> DOUBLE_ELIMINATION, participants |-> MinDoubleElim,
           is_generated |-> FALSE, is_finalized |-> FALSE]}
    \cup {[format_type |-> SWISS, participants |-> n, rounds_config |-> 0,
           is_generated |-> FALSE, is_finalized |-> FALSE] : n \in 2..MaxLifecycle}
    \cup {[format_type |-> GUARANTEED_MATCHES, participants |-> n,
           match_count |-> DefaultMatchCount,
           max_rematches |-> DefaultMaxRematches,
           weight_based_pairing |-> FALSE,
           weights |-> <<>>, weight_classes |-> <<>>, elo_ratings |-> <<>>,
           is_generated |-> FALSE, is_finalized |-> FALSE] : n \in 2..MaxLifecycle}

InitLifecycle ==
    /\ bracket \in LifecycleBrackets
    /\ rounds = <<>>
    /\ matches = <<>>
    /\ irregular = 0
    /\ now = 0
    /\ returned = {}
    /\ players = <<>>
    /\ workers = <<>>

\* the delete endpoint on an existing bracket
Remove ==
    /\ bracket.format_type # NoFormat
    /\ Store(DeleteBracket(DB))
    /\ UNCHANGED irregular

NextLifecycle == Generate \/ PostWhileShallow \/ Remove

SpecLifecycle == InitLifecycle /\ [][NextLifecycle]_vars

\* C25: createBracket, generateBracket, any sequence of result updates and
\* then deleteBracket leave no round and no match of the bracket, for every
\* format, rounds generated after a round completion included.
C25_DeleteLeavesNothing ==
    [][(bracket.format_type # NoFormat /\ bracket'.format_type = NoFormat) =>
          /\ rounds' = <<>>
          /\ DOMAIN matches' = {}]_vars

\* the negation of the step C25 is about, which TLC therefore exhibits: a
\* bracket whose later rounds were created after round completions, with
\* results on record, is deleted
C25_DynamicRoundsDeleted ==
    [][~(/\ bracket.format_type \in {SWISS, GUARANTEED_MATCHES}
         /\ Len(rounds) > 1
         /\ \E m \in DOMAIN matches : matches[m].method = Submission
         /\ bracket'.format_type = NoFormat)]_vars

\* a deleted bracket
C25_Witness ==
    /\ bracket.format_type = NoFormat
    /\ rounds = <<>>
    /\ DOMAIN matches = {}

\* ------------------------------------------------------- upcoming matches

MaxRestField == 4
MaxRest == 2
MaxClock == 3
MaxLimit == 2

\* completed_at of the fighter's most recent match that is COMPLETED and
\* has a completed_at, NoTime when the query finds no row
RecentCompleted(db, p) ==
    LET done == {m \in DOMAIN db.matches :
                    /\ p \in {db.matches[m].a_player_id, db.matches[m].b_player_id}
                    /\ db.matches[m].match_status = COMPLETED
                    /\ db.matches[m].completed_at # NoTime}
    IN IF done = {} THEN NoTime
       ELSE CHOOSE t \in {db.matches[m].completed_at : m \in done} :
                \A m \in done : db.matches[m].completed_at <= t

\* _can_fighters_compete with fighter B's rest left unexamined
CanFighterACompete(db, mt, min_rest) ==
    IF mt.a_player_id = 0 \/ mt.b_player_id = 0 THEN FALSE
    ELSE LET recent_a == RecentCompleted(db, mt.a_player_id)
         IN ~(recent_a # NoTime /\ db.now - recent_a < min_rest)

\* _can_fighters_compete
CanFightersCompete(db, mt, min_rest) ==
    IF mt.a_player_id = 0 \/ mt.b_player_id = 0 THEN FALSE
    ELSE LET recent_a == RecentCompleted(db, mt.a_player_id)
             recent_b == RecentCompleted(db, mt.b_player_id)
         IN IF recent_a # NoTime /\ db.now - recent_a < min_rest THEN FALSE
            ELSE IF recent_b # NoTime /\ db.now - recent_b < min_rest THEN FALSE
            ELSE TRUE

\* get_upcoming_matches before the limit: the READY matches of the
\* bracket's rounds whose fighters may compete
AvailableMatches(db) ==
    IF db.bracket.format_type = NoFormat THEN {}
    ELSE {m \in DOMAIN db.matches :
             /\ db.matches[m].bracket_round_id \in DOMAIN db.rounds
             /\ db.matches[m].match_status = READY
             /\ CanFightersCompete(db, db.matches[m],
                                   db.bracket.min_rest_minutes)}

RestFields ==
    [format_type : {SINGLE_ELIMINATION}, participants : 2..MaxRestField]
    \cup [format_type : {ROUND_ROBIN}, participants : 2..(MaxRestField - 1)]

RestBrackets ==
    {[format_type |-> f.format_type, participants |-> f.participants,
      min_rest_minutes |-> rest,
      is_generated |-> FALSE, is_finalized |-> FALSE] :
        f \in RestFields, rest \in 0..MaxRest}

InitRest ==
    /\ bracket \in RestBrackets
    /\ rounds = <<>>
    /\ matches = <<>>
    /\ irregular = 0
    /\ now = 0
    /\ returned = {}
    /\ players = <<>>
    /\ workers = <<>>

\* the upcoming-matches endpoint: the first `limit` available matches, in
\* whatever order the unordered query returned them
GetUpcomingMatches ==
    \E limit \in 1..MaxLimit, page \in SUBSET AvailableMatches(DB) :
        /\ Cardinality(page) = Min(limit, Cardinality(AvailableMatches(DB)))
        /\ returned' = page
        /\ UNCHANGED <<bracket, rounds, matches, irregular, now, players, workers>>

\* a minute passes on the server's clock
Tick ==
    /\ now < MaxClock
    /\ now' = now + 1
    /\ returned' = {}
    /\ UNCHANGED <<bracket, rounds, matches, irregular, players, workers>>

NextRest == Generate \/ PostInTurn \/ Tick \/ GetUpcomingMatches

SpecRest == InitRest /\ [][NextRest]_vars

\* the Completed matches fighter p is in
CompletedOf(p) ==
    {k \in DOMAIN matches :
        /\ p \in {matches[k].a_player_id, matches[k].b_player_id}
        /\ matches[k].match_status = COMPLETED}

Rested(p) ==
    \A k \in CompletedOf(p) :
        /\ matches[k].completed_at # NoTime
        /\ now - matches[k].completed_at >= bracket.min_rest_minutes

\* C26: every match a call of getUpcomingMatches returns is Ready with both
\* fighter slots filled, and each of its fighters either has no Completed
\* match or finished the most recent one at least minRestMinutes ago; the
\* call changes no match and no round
C26_RestGate ==
    [][returned' # {} =>
          /\ matches' = matches /\ rounds' = rounds
          /\ \A m \in returned' :
                /\ m \in DOMAIN matches
                /\ matches[m].match_status = READY
                /\ matches[m].a_player_id # 0 /\ matches[m].b_player_id # 0
                /\ Rested(matches[m].a_player_id)
                /\ Rested(matches[m].b_player_id)]_vars

\* a returned match of two fighters who both fought a real match before and
\* have rested, under a rest interval the clock can fall short of
C26_Witness ==
    /\ bracket.min_rest_minutes > 0
    /\ \E m \in returned :
          /\ m \in AvailableMatches(DB)
          /\ \A p \in {matches[m].a_player_id, matches[m].b_player_id} :
                \E k \in CompletedOf(p) : matches[k].method # Bye

\* a Ready match with both fighters is held back by the rest interval
C26_HeldBack ==
    ~(\E m \in DOMAIN matches :
          /\ matches[m].match_status = READY
          /\ matches[m].a_player_id # 0 /\ matches[m].b_player_id # 0
          /\ m \notin AvailableMatches(DB))

\* ----------------------------------------------------------- rating replay
\* Ratings are in thousandths of a point: 1466.67 is 1466670.

NoRating == 0
NoDelta == 100000
NoBelt == ""

KNew == 32
KEstablished == 24
EstablishedAfter == 10

\* the weight_classes table: id -> name
WeightClassNames == <<"Lightweight", "Middleweight", "Heavyweight">>

\* the events table: id -> date; the later event was entered first
EventDates == <<2, 1>>

\* str.lower() on the names of the weight_classes table
Lower(name) ==
    CASE name = "Lightweight" -> "lightweight"
      [] name = "Middleweight" -> "middleweight"
      [] name = "Heavyweight" -> "heavyweight"
      [] OTHER -> name

\* get_starting_elo of the replay: an exact-key lookup, White for a missing
\* belt and 1200.0 for an unknown key
RecalcStartingElo(belt_rank) ==
    LET key == IF belt_rank = NoBelt THEN "White" ELSE belt_rank
    IN CASE key = "Black" -> 2000000
         [] key = "Brown" -> 1600000
         [] key = "Purple" -> 1466670
         [] key = "Blue" -> 1333330
         [] key = "White" -> 1200000
         [] OTHER -> 1200000

\* 1000 / (1 + 10 ** (d / 400)) at d = -1000, -975, .. 1000 points
ExpectedTable ==
    <<997, 996, 996, 995, 994, 994, 993, 991, 990, 989, 987, 985, 983, 980,
      977, 973, 969, 965, 960, 954, 947, 939, 930, 920, 909, 896, 882, 867,
      849, 830, 808, 785, 760, 733, 703, 673, 640, 606, 571, 536, 500, 464,
      429, 394, 360, 327, 297, 267, 240, 215, 192, 170, 151, 133, 118, 104,
      91, 80, 70, 61, 53, 46, 40, 35, 31, 27, 23, 20, 17, 15, 13, 11, 10, 9,
      7, 6, 6, 5, 4, 4, 3>>

\* calculate_expected_score, in thousandths, to the nearest 25 points of
\* rating difference
CalculateExpectedScore(rating_a, rating_b) ==
    LET d == rating_b - rating_a
        k == (d + 1000000 + 12500) \div 25000
    IN ExpectedTable[Max(0, Min(80, k)) + 1]

\* calculate_elo_change of the replay: K * (actual - expected)
CalculateEloChange(expected, actual, matches_played) ==
    LET k_factor == IF matches_played < EstablishedAfter THEN KNew
                    ELSE KEstablished
    IN k_factor * (actual - expected)

\* round() to whole points, halves to the even neighbour
Round(x) ==
    LET q == x \div 1000
        r == x % 1000
    IN IF r < 500 THEN q
       ELSE IF r > 500 THEN q + 1
       ELSE IF q % 2 = 0 THEN q ELSE q + 1

\* the score of fighter A: 1.0, 0.0, and 0.5 for every other result
ActualA(result) ==
    IF result = PLAYER_A_WIN THEN 1000
    ELSE IF result = PLAYER_B_WIN THEN 0
    ELSE 500

ClassRating(player, weight_class_name) ==
    CASE weight_class_name = "lightweight" -> player.elo_lightweight
      [] weight_class_name = "middleweight" -> player.elo_middleweight
      [] weight_class_name = "heavyweight" -> player.elo_heavyweight

WithClassRating(player, weight_class_name, rating) ==
    CASE weight_class_name = "lightweight" ->
             [player EXCEPT !.elo_lightweight = rating]
      [] weight_class_name = "middleweight" ->
             [player EXCEPT !.elo_middleweight = rating]
      [] weight_class_name = "heavyweight" ->
             [player EXCEPT !.elo_heavyweight = rating]

\* `x or get_starting_elo(belt)`: None and 0.0 both fall back
OrStarting(rating, player) ==
    IF rating = NoRating THEN RecalcStartingElo(player.bjj_belt_rank)
    ELSE rating

\* the reset loop of recalculate_all_elo
ResetPlayer(player) ==
    LET starting_elo == RecalcStartingElo(player.bjj_belt_rank)
    IN [player EXCEPT !.elo_lightweight = starting_elo,
                      !.elo_middleweight = starting_elo,
                      !.elo_heavyweight = starting_elo,
                      !.elo_rating = starting_elo,
                      !.initial_elo_lightweight = starting_elo,
                      !.initial_elo_middleweight = starting_elo,
                      !.initial_elo_heavyweight = starting_elo]

\* the matches with a result, joined with their event, ordered by event
\* date and then by match id
ReplayOrder(db) ==
    LET ids == {m \in DOMAIN db.matches :
                   /\ db.matches[m].result # NoResult
                   /\ db.matches[m].event_id \in DOMAIN EventDates}
        earlier(m, k) ==
            \/ EventDates[db.matches[m].event_id]
                   < EventDates[db.matches[k].event_id]
            \/ /\ EventDates[db.matches[m].event_id]
                      = EventDates[db.matches[k].event_id]
               /\ m < k
    IN SortSeq(SortedIds(ids), earlier)

\* one pass of the loop body of recalculate_all_elo over match m
ReplayMatch(st, m) ==
    LET match == st.matches[m]
        a == match.a_player_id
        b == match.b_player_id
        known == a \in DOMAIN st.players /\ b \in DOMAIN st.players
        weight_class_name ==
            IF match.weight_class_id \in DOMAIN WeightClassNames
            THEN Lower(WeightClassNames[match.weight_class_id])
            ELSE ""
    IN IF ~known THEN st
       ELSE IF match.weight_class_id = 0 THEN st
       ELSE IF weight_class_name = "" THEN st
       ELSE IF weight_class_name
                 \notin {"lightweight", "middleweight", "heavyweight"} THEN st
       ELSE
       LET player_a == st.players[a]
           player_b == st.players[b]
           rating_a_wc == OrStarting(ClassRating(player_a, weight_class_name),
                                     player_a)
           rating_b_wc == OrStarting(ClassRating(player_b, weight_class_name),
                                     player_b)
           rating_a_p4p == OrStarting(player_a.elo_rating, player_a)
           rating_b_p4p == OrStarting(player_b.elo_rating, player_b)
           expected_a == CalculateExpectedScore(rating_a_wc, rating_b_wc)
           expected_b == CalculateExpectedScore(rating_b_wc, rating_a_wc)
           expected_a_p4p == CalculateExpectedScore(rating_a_p4p, rating_b_p4p)
           expected_b_p4p == CalculateExpectedScore(rating_b_p4p, rating_a_p4p)
           actual_a == ActualA(match.result)
           actual_b == 1000 - actual_a
           change_a_wc ==
               CalculateEloChange(expected_a, actual_a,
                                  st.match_counts[a][weight_class_name])
           change_b_wc ==
               CalculateEloChange(expected_b, actual_b,
                                  st.match_counts[b][weight_class_name])
           change_a_p4p ==
               CalculateEloChange(expected_a_p4p, actual_a,
                                  st.p4p_match_counts[a])
           change_b_p4p ==
               CalculateEloChange(expected_b_p4p, actual_b,
                                  st.p4p_match_counts[b])
           new_a == [WithClassRating(player_a, weight_class_name,
                                     rating_a_wc + change_a_wc)
                        EXCEPT !.elo_rating = rating_a_p4p + change_a_p4p]
           new_b == [WithClassRating(player_b, weight_class_name,
                                     rating_b_wc + change_b_wc)
                        EXCEPT !.elo_rating = rating_b_p4p + change_b_p4p]
       IN [players |-> [st.players EXCEPT ![a] = new_a, ![b] = new_b],
           matches |-> [st.matches EXCEPT
                            ![m] = [match EXCEPT
                                       !.a_elo_change = Round(change_a_wc),
                                       !.b_elo_change = Round(change_b_wc)]],
           match_counts |->
               [st.match_counts EXCEPT
                   ![a][weight_class_name] = @ + 1,
                   ![b][weight_class_name] = @ + 1],
           p4p_match_counts |->
               [st.p4p_match_counts EXCEPT ![a] = @ + 1, ![b] = @ + 1]]

RECURSIVE ReplayEach(_, _)
ReplayEach(st, order) ==
    IF order = <<>> THEN st
    ELSE ReplayEach(ReplayMatch(st, Head(order)), Tail(order))

\* the replay with the reset loop left out: it continues from the
\* ratings the fighters have
RecalculateFromCurrentElo(db) ==
    LET classes == {"lightweight", "middleweight", "heavyweight"}
        st == ReplayEach(
                  [players |-> db.players,
                   matches |-> db.matches,
                   match_counts |->
                       [p \in DOMAIN db.players |-> [c \in classes |-> 0]],
                   p4p_match_counts |-> [p \in DOMAIN db.players |-> 0]],
                  ReplayOrder(db))
    IN [players |-> st.players, matches |-> st.matches]

\* recalculate_all_elo: reset every fighter, then replay the matches
RecalculateAllElo(db) ==
    LET classes == {"lightweight", "middleweight", "heavyweight"}
        st == ReplayEach(
                  [players |-> [p \in DOMAIN db.players |->
                                   ResetPlayer(db.players[p])],
                   matches |-> db.matches,
                   match_counts |->
                       [p \in DOMAIN db.players |-> [c \in classes |-> 0]],
                   p4p_match_counts |-> [p \in DOMAIN db.players |-> 0]],
                  ReplayOrder(db))
    IN [players |-> st.players, matches |-> st.matches]

\* get_player_record: wins, losses and draws of a fighter over the
\* matches that have a result
GetPlayerRecord(ms, player_id) ==
    LET mine == {m \in DOMAIN ms :
                    /\ player_id \in {ms[m].a_player_id, ms[m].b_player_id}
                    /\ ms[m].result # NoResult}
        won(m) == IF ms[m].a_player_id = player_id
                  THEN ms[m].result = PLAYER_A_WIN
                  ELSE ms[m].result = PLAYER_B_WIN
        lost(m) == IF ms[m].a_player_id = player_id
                   THEN ms[m].result = PLAYER_B_WIN
                   ELSE ms[m].result = PLAYER_A_WIN
    IN [wins |-> Cardinality({m \in mine : won(m)}),
        losses |-> Cardinality({m \in mine : ~won(m) /\ lost(m)}),
        draws |-> Cardinality({m \in mine : ~won(m) /\ ~lost(m)})]

MaxFighters == 3
MaxRated == 2
MaxRatedSlots == 6

\* belt ranks as they are entered: the five ranks, a lower-case spelling,
\* a rank outside the table, and none
BeltRanks == <<"Black", "Brown", "Purple", "Blue", "White", "blue", "Green",
               NoBelt>>

RosterOffsets == {0, 2, 4, 6}

\* a players row before any replay
NewPlayer(belt_rank) ==
    [bjj_belt_rank |-> belt_rank,
     elo_rating |-> NoRating,
     elo_lightweight |-> NoRating,
     elo_middleweight |-> NoRating,
     elo_heavyweight |-> NoRating,
     initial_elo_lightweight |-> NoRating,
     initial_elo_middleweight |-> NoRating,
     initial_elo_heavyweight |-> NoRating]

\* n fighters whose belts are n consecutive entries of BeltRanks
Roster(n, offset) ==
    [i \in 1..n |->
        NewPlayer(BeltRanks[((offset + i - 1) % Len(BeltRanks)) + 1])]

\* a matches row with a result, as the replay reads it
RatedMatch(a, b, result, weight_class_id, event_id) ==
    [a_player_id |-> a,
     b_player_id |-> b,
     result |-> result,
     weight_class_id |-> weight_class_id,
     event_id |-> event_id,
     a_elo_change |-> NoDelta,
     b_elo_change |-> NoDelta]

InitRatings ==
    /\ bracket = NoBracket
    /\ rounds = <<>>
    /\ matches = <<>>
    /\ irregular = 0
    /\ now = 0
    /\ returned = {}
    /\ workers = <<>>
    /\ \E n \in 2..MaxFighters, offset \in RosterOffsets :
          players = Roster(n, offset)

\* a match of two fighters is entered with its result
RecordMatch ==
    /\ Len(matches) < MaxRated
    /\ (Len(matches) + 1) * Len(players) <= MaxRatedSlots
    /\ \E a \in DOMAIN players, b \in DOMAIN players, r \in Results,
          wc \in 0..Len(WeightClassNames), ev \in DOMAIN EventDates :
          /\ a < b
          /\ matches' = Append(matches, RatedMatch(a, b, r, wc, ev))
    /\ UNCHANGED <<bracket, rounds, irregular, now, returned, players, workers>>

\* the recalculate-elo endpoint
Recalculate ==
    LET after == RecalculateAllElo([players |-> players, matches |-> matches])
    IN /\ players' = after.players
       /\ matches' = after.matches
       /\ UNCHANGED <<bracket, rounds, irregular, now, returned, workers>>

NextRatings == RecordMatch \/ Recalculate

SpecRatings == InitRatings /\ [][NextRatings]_vars

\* the rating columns of the store
Rated == [players |-> players, matches |-> matches]

\* the matches of the store the replay processes
Processed(ms) ==
    {m \in DOMAIN ms :
        /\ ms[m].result # NoResult
        /\ ms[m].weight_class_id \in DOMAIN WeightClassNames}

\* C27: running the replay a second time on unchanged fighters and matches
\* leaves every fighter's overall rating, per-class ratings and every
\* match's A and B deltas as the first run left them
C27_ReplayIdempotent ==
    LET once == RecalculateAllElo(Rated)
    IN RecalculateAllElo(once) = once

\* two processed matches in which a fighter moved off the starting rating
\* have been replayed
C27_Witness ==
    /\ Rated = RecalculateAllElo(Rated)
    /\ Cardinality(Processed(matches)) >= 2
    /\ \E m \in Processed(matches) :
          matches[m].a_elo_change \notin {0, NoDelta}
    /\ \E p \in DOMAIN players :
          players[p].elo_rating # players[p].initial_elo_lightweight

\* the store without its NoContest matches
WithoutNoContest(db) ==
    [players |-> db.players,
     matches |-> SelectSeq(db.matches, LAMBDA row : row.result # NO_CONTEST)]

\* the matches of a fighter that ended in a win for either side or a draw
ContestedBy(player_id) ==
    {m \in DOMAIN matches :
        /\ player_id \in {matches[m].a_player_id, matches[m].b_player_id}
        /\ matches[m].result \in {PLAYER_A_WIN, PLAYER_B_WIN, DRAW}}

\* C28: a NoContest match gets no delta written, the ratings the replay
\* produces are those it produces without the NoContest matches, and a
\* fighter's wins, losses and draws add up to the matches that were
\* contested
C28_NoContestExcluded ==
    /\ \A m \in DOMAIN matches :
          matches[m].result = NO_CONTEST =>
              /\ matches[m].a_elo_change = NoDelta
              /\ matches[m].b_elo_change = NoDelta
    /\ RecalculateAllElo(Rated).players
           = RecalculateAllElo(WithoutNoContest(Rated)).players
    /\ \A p \in DOMAIN players :
          LET record == GetPlayerRecord(matches, p)
          IN record.wins + record.losses + record.draws
                 = Cardinality(ContestedBy(p))

\* the replay leaves the deltas of a NoContest match unwritten
C28_NoDeltaWritten ==
    \A m \in DOMAIN matches :
        matches[m].result = NO_CONTEST =>
            /\ matches[m].a_elo_change = NoDelta
            /\ matches[m].b_elo_change = NoDelta

\* a NoContest match is no draw in a fighter's record
C28_NotInRecord ==
    \A p \in DOMAIN players :
        GetPlayerRecord(matches, p).draws
            = Cardinality({m \in ContestedBy(p) : matches[m].result = DRAW})

\* the starting rating the claim states for a belt: the five ranks in any
\* letter case, the Blue value for every other or a missing belt
StatedStartingElo(belt_rank) ==
    CASE belt_rank \in {"Black"} -> 2000000
      [] belt_rank \in {"Brown"} -> 1600000
      [] belt_rank \in {"Purple"} -> 1467000
      [] belt_rank \in {"Blue", "blue"} -> 1333000
      [] belt_rank \in {"White"} -> 1200000
      [] OTHER -> 1333000

\* C29: once the replay has run, every fighter's initial per-class ratings
\* are the stated starting rating of the belt, and so are the overall and
\* per-class ratings of a fighter with no processed match
C29_StartsAtBeltRating ==
    \A p \in DOMAIN players :
        players[p].initial_elo_lightweight # NoRating =>
            LET start == StatedStartingElo(players[p].bjj_belt_rank)
                unplayed == \A m \in Processed(matches) :
                                p \notin {matches[m].a_player_id,
                                          matches[m].b_player_id}
            IN /\ players[p].initial_elo_lightweight = start
               /\ players[p].initial_elo_middleweight = start
               /\ players[p].initial_elo_heavyweight = start
               /\ unplayed =>
                      /\ players[p].elo_rating = start
                      /\ players[p].elo_lightweight = start
                      /\ players[p].elo_middleweight = start
                      /\ players[p].elo_heavyweight = start

\* the same with the starting rating the replay looks up
C29_StartsAtRecalcRating ==
    \A p \in DOMAIN players :
        players[p].initial_elo_lightweight # NoRating =>
            LET start == RecalcStartingElo(players[p].bjj_belt_rank)
            IN /\ players[p].initial_elo_lightweight = start
               /\ players[p].initial_elo_middleweight = start
               /\ players[p].initial_elo_heavyweight = start

\* ------------------------------------------------------------ head to head

MaxLadder == 3
MaxBouts == 2
MaxBoutSlots == 6

\* get_head_to_head counting a win for whoever stands in the winning slot
\* of the row, whichever of the two fighters was asked for first
GetHeadToHeadBySlot(ms, player_a_id, player_b_id) ==
    LET between == {m \in DOMAIN ms :
                       /\ \/ /\ ms[m].a_player_id = player_a_id
                             /\ ms[m].b_player_id = player_b_id
                          \/ /\ ms[m].a_player_id = player_b_id
                             /\ ms[m].b_player_id = player_a_id
                       /\ ms[m].result # NoResult}
    IN [total_matches |-> Cardinality(between),
        player_a_wins |->
            Cardinality({m \in between : ms[m].result = PLAYER_A_WIN}),
        player_b_wins |->
            Cardinality({m \in between : ms[m].result = PLAYER_B_WIN}),
        draws |->
            Cardinality({m \in between :
                ms[m].result \notin {PLAYER_A_WIN, PLAYER_B_WIN}})]

\* get_head_to_head: the matches between the two with a result, counted
\* from the side of the fighter asked for first (the list of recent
\* matches is left out)
GetHeadToHead(ms, player_a_id, player_b_id) ==
    LET between == {m \in DOMAIN ms :
                       /\ \/ /\ ms[m].a_player_id = player_a_id
                             /\ ms[m].b_player_id = player_b_id
                          \/ /\ ms[m].a_player_id = player_b_id
                             /\ ms[m].b_player_id = player_a_id
                       /\ ms[m].result # NoResult}
        a_won(m) == IF ms[m].a_player_id = player_a_id
                    THEN ms[m].result = PLAYER_A_WIN
                    ELSE ms[m].result = PLAYER_B_WIN
        b_won(m) == IF ms[m].a_player_id = player_a_id
                    THEN ms[m].result = PLAYER_B_WIN
                    ELSE ms[m].result = PLAYER_A_WIN
    IN [total_matches |-> Cardinality(between),
        player_a_wins |-> Cardinality({m \in between : a_won(m)}),
        player_b_wins |->
            Cardinality({m \in between : ~a_won(m) /\ b_won(m)}),
        draws |->
            Cardinality({m \in between : ~a_won(m) /\ ~b_won(m)})]

\* tuple(sorted([p, q]))
SortedKey(p, q) == IF p <= q THEN <<p, q>> ELSE <<q, p>>

\* build_head_to_head_lookup: for every pair with a decided match, the
\* wins of the smaller id and the wins of the larger id
BuildHeadToHeadLookup(ms) ==
    LET counted == {m \in DOMAIN ms :
                       /\ ms[m].a_player_id # 0 /\ ms[m].b_player_id # 0
                       /\ ms[m].result # NO_CONTEST
                       /\ ms[m].result \in {PLAYER_A_WIN, PLAYER_B_WIN}}
        key(m) == SortedKey(ms[m].a_player_id, ms[m].b_player_id)
        winner(m) == IF ms[m].result = PLAYER_A_WIN THEN ms[m].a_player_id
                     ELSE ms[m].b_player_id
    IN [k \in {key(m) : m \in counted} |->
           <<Cardinality({m \in counted : key(m) = k /\ winner(m) = k[1]}),
             Cardinality({m \in counted : key(m) = k /\ winner(m) # k[1]})>>]

\* get_head_to_head_from_lookup
GetHeadToHeadFromLookup(player_a_id, player_b_id, h2h_lookup) ==
    LET key == SortedKey(player_a_id, player_b_id)
        wins == IF key \in DOMAIN h2h_lookup THEN h2h_lookup[key]
                ELSE <<0, 0>>
    IN IF key[1] = player_a_id THEN <<wins[1], wins[2]>>
       ELSE <<wins[2], wins[1]>>

InitLadder ==
    /\ bracket = NoBracket
    /\ rounds = <<>>
    /\ matches = <<>>
    /\ irregular = 0
    /\ now = 0
    /\ returned = {}
    /\ workers = <<>>
    /\ \E n \in 2..MaxLadder : players = Roster(n, 0)

\* a match is entered with its result, either fighter in either slot
RecordBout ==
    /\ Len(matches) < MaxBouts
    /\ (Len(matches) + 1) * Len(players) <= MaxBoutSlots
    /\ \E a \in DOMAIN players, b \in DOMAIN players, r \in Results :
          /\ a # b
          /\ matches' = Append(matches, RatedMatch(a, b, r, 0, 1))
    /\ returned' = {}
    /\ UNCHANGED <<bracket, rounds, irregular, now, players, workers>>

\* the head-to-head query of the rating service
HeadToHead ==
    /\ \E a \in DOMAIN players, b \in DOMAIN players :
          /\ a # b
          /\ returned' = {[player_a_id |-> a, player_b_id |-> b,
                           record |-> GetHeadToHead(matches, a, b)]}
    /\ UNCHANGED <<bracket, rounds, matches, irregular, now, players, workers>>

\* the head-to-head lookup of the ladder
LadderHeadToHead ==
    /\ \E a \in DOMAIN players, b \in DOMAIN players :
          /\ a # b
          /\ returned' = {[player_a_id |-> a, player_b_id |-> b,
                           wins |-> GetHeadToHeadFromLookup(
                                        a, b, BuildHeadToHeadLookup(matches))]}
    /\ UNCHANGED <<bracket, rounds, matches, irregular, now, players, workers>>

NextLadder == RecordBout \/ HeadToHead \/ LadderHeadToHead

SpecLadder == InitLadder /\ [][NextLadder]_vars

\* C30: the wins reported for A in h2h(A, B) are the wins reported for the
\* second player in h2h(B, A), likewise B's wins, and the draws agree; the
\* ladder's lookup is symmetric in the same way
C30_HeadToHeadSymmetric ==
    \A a \in DOMAIN players, b \in DOMAIN players :
        a # b =>
            LET ab == GetHeadToHead(matches, a, b)
                ba == GetHeadToHead(matches, b, a)
                lookup == BuildHeadToHeadLookup(matches)
                lab == GetHeadToHeadFromLookup(a, b, lookup)
                lba == GetHeadToHeadFromLookup(b, a, lookup)
            IN /\ ab.player_a_wins = ba.player_b_wins
               /\ ab.player_b_wins = ba.player_a_wins
               /\ ab.draws = ba.draws
               /\ lab[1] = lba[2]
               /\ lab[2] = lba[1]

\* a query has answered for two fighters who each won one of their two
\* matches, each of them from slot A
C30_Witness ==
    \E resp \in returned :
        /\ "record" \in DOMAIN resp
        /\ resp.record.player_a_wins = 1
        /\ resp.record.player_b_wins = 1
        /\ \E m \in DOMAIN matches, k \in DOMAIN matches :
              /\ matches[m].a_player_id = resp.player_a_id
              /\ matches[m].b_player_id = resp.player_b_id
              /\ matches[m].result = PLAYER_A_WIN
              /\ matches[k].a_player_id = resp.player_b_id
              /\ matches[k].b_player_id = resp.player_a_id
              /\ matches[k].result = PLAYER_A_WIN

\* ------------------------------------------------------------- propagation

\* the store a call of update_match_result on match m leaves, for every
\* row the unordered query of the losers final may return last
Posted(m, r) ==
    {UpdateMatchResult(DB, m, r, Submission, 180, last) : last \in LastChoices(m)}

\* the fighter match mt forwards into a slot that requires its winner or
\* its loser
Forwarded(mt, requires_winner) ==
    IF requires_winner THEN WinnerOf(mt) ELSE LoserOf(mt)

\* every slot that depends on m holds the fighter m forwards to it
DependentsHold(after, m) ==
    \A d \in DOMAIN after.matches :
        LET dep == after.matches[d]
            fa == Forwarded(after.matches[m], dep.requires_winner_a)
            fb == Forwarded(after.matches[m], dep.requires_winner_b)
        IN /\ (dep.depends_on_match_a = m /\ fa # 0) => dep.a_player_id = fa
           /\ (dep.depends_on_match_b = m /\ fb # 0) => dep.b_player_id = fb

\* the matches of the store whose slot A, slot B differs between the two
WrittenA(before, after) ==
    {d \in DOMAIN before.matches \cap DOMAIN after.matches :
        before.matches[d].a_player_id # after.matches[d].a_player_id}

WrittenB(before, after) ==
    {d \in DOMAIN before.matches \cap DOMAIN after.matches :
        before.matches[d].b_player_id # after.matches[d].b_player_id}

\* C31: right after updateMatchResult records a decisive result on match
\* M, every slot whose dependency references M holds M's winner (or M's
\* loser where the slot asks for the loser), and no slot whose dependency
\* does not reference M has been written
C31_PropagationSlotRule ==
    \A m \in DOMAIN matches, r \in Decisive :
        \A after \in Posted(m, r) :
            /\ DependentsHold(after, m)
            /\ \A d \in WrittenA(DB, after) :
                  matches[d].depends_on_match_a = m
            /\ \A d \in WrittenB(DB, after) :
                  matches[d].depends_on_match_b = m

\* the first half of the slot rule alone
C31_DependentsHold ==
    \A m \in DOMAIN matches, r \in Decisive :
        \A after \in Posted(m, r) : DependentsHold(after, m)

\* the matches with a slot that depends on match m
DependOn(m) ==
    {d \in DOMAIN matches :
        matches[d].depends_on_match_a = m \/ matches[d].depends_on_match_b = m}

\* slots, status, result and method of match d are the same in both stores
SameBout(before, after, d) ==
    /\ d \in DOMAIN after.matches
    /\ after.matches[d].a_player_id = before.matches[d].a_player_id
    /\ after.matches[d].b_player_id = before.matches[d].b_player_id
    /\ after.matches[d].match_status = before.matches[d].match_status
    /\ after.matches[d].result = before.matches[d].result
    /\ after.matches[d].method = before.matches[d].method

\* C32: posting a Draw or a NoContest on match M changes no fighter slot,
\* status, result or method of any match that depends on M
C32_DrawHaltsPropagation ==
    \A m \in DOMAIN matches, r \in {DRAW, NO_CONTEST} :
        \A after \in Posted(m, r) :
            \A d \in DependOn(m) : SameBout(DB, after, d)

\* C33: a result posted on M (a first result, a re-posted or a corrected
\* one) changes neither status, result nor method of a dependent of M that
\* is already Completed, and re-posting the result M already has leaves the
\* slots of M's dependents as they are
C33_CompletedDependentsTerminal ==
    \A m \in DOMAIN matches, r \in Results :
        \A after \in Posted(m, r) :
            \A d \in DependOn(m) :
                /\ matches[d].match_status = COMPLETED =>
                      /\ d \in DOMAIN after.matches
                      /\ after.matches[d].match_status = COMPLETED
                      /\ after.matches[d].result = matches[d].result
                      /\ after.matches[d].method = matches[d].method
                /\ (matches[m].match_status = COMPLETED /\ matches[m].result = r) =>
                      /\ d \in DOMAIN after.matches
                      /\ after.matches[d].a_player_id = matches[d].a_player_id
                      /\ after.matches[d].b_player_id = matches[d].b_player_id

\* ------------------------------------------------ double elimination, losses

\* some slot of the bracket takes the loser of match m
LoserPlays(m) ==
    \E d \in DOMAIN matches :
        \/ matches[d].depends_on_match_a = m /\ ~matches[d].requires_winner_a
        \/ matches[d].depends_on_match_b = m /\ ~matches[d].requires_winner_b

\* C34: in a generated double-elimination bracket every winners-bracket
\* match, the winners final included, has a later match that takes its
\* loser, so that one loss eliminates nobody
C34_TwoLossesToEliminate ==
    (/\ bracket.format_type = DOUBLE_ELIMINATION
     /\ bracket.is_generated
     /\ irregular = 0) =>
        \A m \in DOMAIN matches :
            matches[m].bracket_round_id \in WinnersRounds(DB) => LoserPlays(m)

\* the drop-down matches fed by the losers of two winners-bracket matches
TwoFeederDropDowns ==
    {d \in DOMAIN matches :
        /\ matches[d].depends_on_match_a \in DOMAIN matches
        /\ matches[d].depends_on_match_b \in DOMAIN matches
        /\ ~matches[d].requires_winner_a
        /\ ~matches[d].requires_winner_b}

Undecided(m) == matches[m].result \notin Decisive

\* the row of match d after results ra on match fa, then rb on match fb
AfterBoth(d, fa, ra, fb, rb) ==
    LET one == UpdateMatchResult(DB, fa, ra, Submission, 180, fa)
        two == UpdateMatchResult(one, fb, rb, Submission, 180, fb)
    IN two.matches[d]

\* C35: a drop-down match with two feeders is never completed as a Bye
\* while one of its feeders is undecided, and once both feeders are decided
\* it is Ready with both slots set and no result, whichever feeder was
\* decided first
C35_DropDownWaitsForBothFeeders ==
    irregular = 0 =>
        \A d \in TwoFeederDropDowns :
            LET fa == matches[d].depends_on_match_a
                fb == matches[d].depends_on_match_b
            IN /\ (Undecided(fa) \/ Undecided(fb)) =>
                      ~(matches[d].match_status = COMPLETED /\ matches[d].method = Bye)
               /\ (/\ matches[fa].match_status = READY
                   /\ matches[fb].match_status = READY) =>
                      \A ra, rb \in Decisive :
                          /\ AfterBoth(d, fa, ra, fb, rb) = AfterBoth(d, fb, rb, fa, ra)
                          /\ AfterBoth(d, fa, ra, fb, rb).match_status = READY
                          /\ AfterBoth(d, fa, ra, fb, rb).result = NoResult

\* ------------------------------------------------------ round completion

\* the non-empty rounds all of whose matches are Completed
FinishedRounds ==
    {r \in DOMAIN rounds :
        /\ MatchesInRound(DB, r) # {}
        /\ \A m \in MatchesInRound(DB, r) : matches[m].match_status = COMPLETED}

\* C36: after generateBracket or updateMatchResult returns, every non-empty
\* round all of whose matches are Completed has status Completed, also
\* when its last match was completed by an automatic bye
C36_FinishedRoundsAreCompleted ==
    \A r \in FinishedRounds : rounds[r].status = COMPLETED

\* C37: a round with status Completed holds only Completed matches, also
\* after undoMatchResult or deleteMatch on one of its matches or on a
\* feeder of one of them
C37_CompletedRoundsHoldCompletedMatches ==
    \A r \in DOMAIN rounds :
        rounds[r].status = COMPLETED =>
            \A m \in MatchesInRound(DB, r) : matches[m].match_status = COMPLETED

\* no two rounds of the store carry the same round number
UniqueRoundNumbers(db) ==
    \A i, j \in DOMAIN db.rounds :
        i # j => db.rounds[i].round_number # db.rounds[j].round_number

\* the store after a result is posted again on the completed match m
Reposted(m, r) == UpdateMatchResult(DB, m, r, Submission, 180, m)

\* the store after the result of m is undone and posted again
UndonePosted(m, r) ==
    UpdateMatchResult([UndoMatchResult(DB, m) EXCEPT !.now = now],
                      m, r, Submission, 180, m)

MaxWorkerField == 4         \* largest field two workers post on
MaxWorkerCalls == 2         \* calls of update_match_result explored

Workers == {1, 2}

\* a worker between two calls
Idle(calls) ==
    [pc |-> "idle", mid |-> 0, result |-> NoResult, row |-> <<>>,
     deps |-> <<>>, pending |-> {}, calls |-> calls]

WorkerFields ==
    [format_type : {SINGLE_ELIMINATION, ROUND_ROBIN, SWISS},
     participants : 2..MaxWorkerField]

InitWorkers ==
    /\ \E f \in WorkerFields :
          bracket = IF f.format_type = SWISS
                    THEN [format_type |-> SWISS,
                          participants |-> f.participants,
                          rounds_config |-> 0,
                          is_generated |-> FALSE,
                          is_finalized |-> FALSE]
                    ELSE [format_type |-> f.format_type,
                          participants |-> f.participants,
                          is_generated |-> FALSE,
                          is_finalized |-> FALSE]
    /\ rounds = <<>>
    /\ matches = <<>>
    /\ irregular = 0
    /\ now = 0
    /\ returned = {}
    /\ players = <<>>
    /\ workers = [w \in Workers |-> Idle(0)]

\* a step of worker w: the store becomes db, the worker's session rec
Commit(db, w, rec) ==
    /\ bracket' = db.bracket
    /\ rounds' = db.rounds
    /\ matches' = StampCompleted(matches, db.matches, now)
    /\ workers' = [workers EXCEPT ![w] = rec]
    /\ UNCHANGED <<irregular, now, players>>
    /\ returned' = {}

AllIdle == \A w \in Workers : workers[w].pc = "idle"

CallsMade == workers[1].calls + workers[2].calls

InCall == Cardinality({w \in Workers : workers[w].pc # "idle"})

\* update_match_result, the query of the match: a call on a Ready match no
\* other call is running on
Call(w) ==
    /\ workers[w].pc = "idle"
    /\ CallsMade + InCall < MaxWorkerCalls
    /\ \E m \in DOMAIN matches, r \in Results :
          /\ matches[m].match_status = READY
          /\ \A v \in Workers : workers[v].pc # "idle" => workers[v].mid # m
          /\ Commit(DB, w, [workers[w] EXCEPT !.pc = "record", !.mid = m,
                                              !.result = r])

\* update_match_result, the result is set on the match and committed
RecordResult(w) ==
    /\ workers[w].pc = "record"
    /\ Commit([DB EXCEPT !.matches[workers[w].mid] =
                  [@ EXCEPT !.result = workers[w].result,
                            !.method = Submission,
                            !.duration_seconds = 180,
                            !.match_status = COMPLETED,
                            !.completed_at = now]],
              w, [workers[w] EXCEPT !.pc = "dependents"])

\* _propagate_result, the match is reloaded and its dependents are queried
ReadDependents(w) ==
    /\ workers[w].pc = "dependents"
    /\ LET mt == matches[workers[w].mid]
       IN IF mt.result = NoResult \/ mt.result = NO_CONTEST
          THEN Commit(DB, w, [workers[w] EXCEPT !.pc = "round"])
          ELSE Commit(DB, w,
                   [workers[w] EXCEPT
                       !.pc = "flush",
                       !.row = mt,
                       !.deps = [d \in DependentsOf(DB, workers[w].mid) |->
                                    matches[d]]])

\* the row a commit leaves: the columns the session changed on the row it
\* loaded, the committed values of the others
FlushRow(committed, loaded, changed) ==
    [f \in DOMAIN committed |->
        IF changed[f] # loaded[f] THEN changed[f] ELSE committed[f]]

\* _propagate_result, slots and status are set on the loaded dependents and
\* committed; the dependents completed as byes are propagated in turn
FlushDependents(w) ==
    /\ workers[w].pc = "flush"
    /\ LET me == workers[w]
           deps == DOMAIN me.deps
           filled == [d \in deps |->
                         FillSlots(me.deps[d], me.mid,
                                   WinnerOf(me.row), LoserOf(me.row))]
           byes == {d \in deps : TakesByeBranch(filled[d])}
           db1 == [DB EXCEPT !.matches =
                     [d \in DOMAIN matches |->
                         IF d \in deps
                         THEN FlushRow(matches[d], me.deps[d],
                                       Transition(filled[d]))
                         ELSE matches[d]]]
       IN Commit(PropagateEach(db1, SortedIds(byes)), w,
                 [me EXCEPT !.pc = "activate", !.row = <<>>, !.deps = <<>>])

\* _activate_pending_rounds_with_ready_matches, the queries
ReadPending(w) ==
    /\ workers[w].pc = "activate"
    /\ Commit(DB, w,
          [workers[w] EXCEPT
              !.pc = "activated",
              !.pending = {r \in DOMAIN rounds :
                             /\ rounds[r].status = PENDING
                             /\ \E m \in MatchesInRound(DB, r) :
                                   matches[m].match_status = READY}])

\* _activate_pending_rounds_with_ready_matches, the commit
CommitPending(w) ==
    /\ workers[w].pc = "activated"
    /\ Commit([DB EXCEPT !.rounds =
                  [r \in DOMAIN rounds |->
                      IF r \in workers[w].pending
                      THEN [rounds[r] EXCEPT !.status = IN_PROGRESS]
                      ELSE rounds[r]]],
              w, [workers[w] EXCEPT !.pc = "round", !.pending = {}])

\* _check_round_completion, the queries: the call returns unless every
\* match of the round is Completed
ReadRound(w) ==
    /\ workers[w].pc = "round"
    /\ LET rid == matches[workers[w].mid].bracket_round_id
       IN IF /\ rid \in DOMAIN rounds
             /\ \A m \in MatchesInRound(DB, rid) :
                   matches[m].match_status = COMPLETED
          THEN Commit(DB, w, [workers[w] EXCEPT !.pc = "complete"])
          ELSE Commit(DB, w, Idle(workers[w].calls + 1))

\* _check_round_completion, the round is marked Completed and committed
CompleteRound(w) ==
    /\ workers[w].pc = "complete"
    /\ Commit(SetRoundStatus(DB, matches[workers[w].mid].bracket_round_id,
                             COMPLETED),
              w, [workers[w] EXCEPT !.pc = "generate"])

\* _generate_next_round, after which the call returns
GenerateNext(w) ==
    /\ workers[w].pc = "generate"
    /\ Commit(GenerateNextRound(DB, matches[workers[w].mid].bracket_round_id,
                                workers[w].mid),
              w, Idle(workers[w].calls + 1))

Work(w) ==
    \/ Call(w)
    \/ RecordResult(w)
    \/ ReadDependents(w)
    \/ FlushDependents(w)
    \/ ReadPending(w)
    \/ CommitPending(w)
    \/ ReadRound(w)
    \/ CompleteRound(w)
    \/ GenerateNext(w)

NextWorkers == Generate \/ \E w \in Workers : Work(w)

SpecWorkers == InitWorkers /\ [][NextWorkers]_vars

\* the matches whose two slots depend on two distinct matches, both decided
FedByBoth ==
    {d \in DOMAIN matches :
        /\ matches[d].depends_on_match_a \in DOMAIN matches
        /\ matches[d].depends_on_match_b \in DOMAIN matches
        /\ matches[d].depends_on_match_a # matches[d].depends_on_match_b
        /\ matches[matches[d].depends_on_match_a].result \in Decisive
        /\ matches[matches[d].depends_on_match_b].result \in Decisive}

\* C39: once two workers that ran updateMatchResult on the two feeders of
\* a match D have both returned, D holds the fighter each feeder forwards
\* and is not Pending, for every interleaving of the two calls
C39_ConcurrentFeeders ==
    AllIdle =>
        \A d \in FedByBoth :
            LET dep == matches[d]
            IN /\ dep.a_player_id =
                     Forwarded(matches[dep.depends_on_match_a], dep.requires_winner_a)
               /\ dep.b_player_id =
                     Forwarded(matches[dep.depends_on_match_b], dep.requires_winner_b)
               /\ dep.match_status # PENDING

\* the rounds of the bracket that are InProgress
Frontier == {r \in DOMAIN rounds : rounds[r].status = IN_PROGRESS}

====
